---- MODULE Spec2Model ----
(***************************************************************************)
(* rw-movies: the client-side cache / pagination / scroll layer.           *)
(*                                                                         *)
(*   Spec     the Movie page (pages/Movie.jsx) or the TvShows page         *)
(*            (pages/TvShows.jsx), whichever the router mounted, over      *)
(*            localStorage, the remote API and the clock                   *)
(*   SpecFn   the storage functions applied to drawn storage contents:     *)
(*            storageManager.safeSet / clearOldCache, clearLRUItems        *)
(*   SpecImg  one ListItem poster (components/ListItem.jsx) over           *)
(*            utils/StorageHandler.jsx                                     *)
(*   SpecRt   safeSetItem and then safeGetItem of utils/StorageHandler.jsx *)
(*            on drawn storages                                            *)
(*   SpecUrl  the Movie page under the routes of App.jsx, searched for any *)
(*            term                                                         *)
(*   SpecGrow the Movie page browsed while the answers of the API grow     *)
(*   SpecQueue, SpecQueueFair                                              *)
(*            the image preload queue of components/ListItem.jsx under     *)
(*            the items of a page; Fair: every load that started ends      *)
(*   SpecLru  safeSetItem and safeGetItem called on a storage of posters   *)
(*            stored earlier, the log keeping every call                   *)
(*   SpecSeason                                                            *)
(*            components/SeasonEpisodes.jsx over a rate-limited API        *)
(*                                                                         *)
(* Storage keys are sequences of tokens: the JavaScript key is the tokens  *)
(* joined by "_", so `cachedMovies_2_timestamp` is                         *)
(* <<"cachedMovies","2","timestamp">>.  Stored values are records with a   *)
(* kind (the text they hold) and a size (their length, in storage units).  *)
(***************************************************************************)
EXTENDS Integers, Sequences, FiniteSets, Bags, TLC

VARIABLES
    now,        \* Date.now() / new Date().getTime(), in ms
    ls,         \* window.localStorage: present key -> stored value
    quota,      \* the user agent's localStorage quota, in characters
    call,       \* SpecFn: the function call drawn by Init
    ret,        \* SpecFn: what the call returned (NoRet before it ran)
    route,      \* Spec: the component mounted: "movie" or "tv" by the router,
                \* "item", "list" or "season" in the other specifications
    st,         \* Spec: the page component's state (its useState values)
    view,       \* Spec: the state the last committed render closed over
    url,        \* Spec: the browser location, as [term, page]
    inflight,   \* Spec: fetch() requests awaiting their response
    positions,  \* Spec: scrollPositionMemory.positions
    scrollY,    \* Spec: window.scrollY
    timers,     \* Spec: pending setTimeout callbacks (their captured pageKey;
                \* SpecSeason: their captured closure and their delay)
    log,        \* Spec: the calls the last step made, in order
    events,     \* Spec: how many clicks and key presses were handled
    ss,         \* SpecImg: sessionStorage
    img         \* SpecImg: ListItem.jsx's memoryImageCache and preload queue

----------------------------------------------------------------------------
(* Bounds of the model *)

MaxEntries == 5      \* SpecFn: cache entries a drawn storage holds at most
MaxItems == 4        \* SpecFn: unprotected items a drawn storage holds at most
MaxStamp == 3        \* SpecFn: drawn timestamps are 1..MaxStamp ticks
FnQuota == 200       \* SpecFn: the quota safeSet runs against

MaxPage == 2         \* Spec: the API has pages 1..MaxPage
MaxTicks == 2        \* Spec: the clock advances at most MaxTicks times
MaxInflight == 2     \* Spec: requests in flight at most
MaxEvents == 3       \* Spec: clicks and key presses handled at most
MaxScroll == 1       \* Spec: window.scrollY is 0..MaxScroll
MaxRetryCount == 4   \* SpecSeason: retry timers run while retryCount is below
MaxCalls == 2        \* SpecLru: calls of safeSetItem and safeGetItem made at most
MidBlob == 122880    \* SpecLru: bytes of a poster of middle size (120 KB)
DirectSize == 300000 \* SpecLru: length of a page of results stored by Movie.jsx
PageQuota == 400     \* Spec: the localStorage quota, in characters
RespSize == 100      \* Spec: length of a serialized response
ForeignSize == 300   \* Spec: length of a value other code left in storage
LargeSize == 350     \* SpecGrow: length of a response once the listing grew
SmallBlob == 3000    \* SpecImg: bytes of a small poster
Headroom == 1000     \* SpecImg: characters a nearly full storage has left

\* the clock advances in steps of 30 minutes
TickMs == 30 * 60 * 1000

----------------------------------------------------------------------------
(* Strings and numbers *)

Digits == <<"1", "2", "3", "4", "5", "6", "7", "8", "9">>

\* Number.prototype.toString / template interpolation of a small positive integer
ToStr(n) == Digits[n]

Min(a, b) == IF a < b THEN a ELSE b

\* what parseInt returns for text that does not start with a digit
NaN == -1

\* Math.ceil(n * 0.3)
CeilThreeTenths(n) == (3 * n + 9) \div 10

----------------------------------------------------------------------------
(* window.localStorage *)

Null == [kind |-> "null", size |-> 0]

\* String.prototype.length of one token of a key
TokenLen(tok) ==
    CASE tok = "cachedMovies" -> 12
      [] tok = "cachedTvShows" -> 13
      [] tok = "cachedTvShowsTimestamp" -> 22
      [] tok = "searchCache" -> 11
      [] tok = "timestamp" -> 9
      [] tok = "settings" -> 8
      [] tok \in {"tvShow", "__meta", "season", "backup"} -> 6
      [] tok \in {"movie", "image", "token"} -> 5
      [] tok \in {"user", "auth"} -> 4
      [] tok = "movies" -> 6
      [] tok = "tv" -> 2
      [] tok = "__storage_test__" -> 16
      [] tok = "" -> 0
      [] OTHER -> 1

\* key.length: the tokens and the "_" between them
RECURSIVE KeyLength(_)
KeyLength(key) ==
    IF Len(key) = 0 THEN 0
    ELSE IF Len(key) = 1 THEN TokenLen(key[1])
    ELSE TokenLen(Head(key)) + 1 + KeyLength(Tail(key))

\* new Date().getTime().toString()
Stamp(t) == [kind |-> "stamp", time |-> t, size |-> 13]

\* a truthy JavaScript value: not null and not the empty string
Truthy(v) == v.kind # "null" /\ v.size > 0

\* parseInt(text) / parseInt(text, 10)
ParseInt(v) == IF v.kind = "stamp" THEN v.time ELSE NaN

getItem(store, key) == IF key \in DOMAIN store THEN store[key] ELSE Null

removeItems(store, keys) == [k \in DOMAIN store \ keys |-> store[k]]

Put(store, key, value) ==
    [k \in DOMAIN store \cup {key} |-> IF k = key THEN value ELSE store[k]]

RECURSIVE SumSizes(_, _)
SumSizes(store, keys) ==
    IF keys = {} THEN 0
    ELSE LET k == CHOOSE x \in keys : TRUE
         IN  KeyLength(k) + store[k].size + SumSizes(store, keys \ {k})

Used(store) == SumSizes(store, DOMAIN store)

\* JSON.stringify of a response's results and total_pages
PageData(results, total, size) ==
    [kind |-> "json", results |-> results, total_pages |-> total, size |-> size]

\* localStorage.setItem(key, value) throws QuotaExceededError exactly when the
\* storage would grow beyond its quota
QuotaExceeded(store, key, value) == Used(Put(store, key, value)) > quota

\* localStorage.key(0), localStorage.key(1), ...: the user agent's order
RECURSIVE KeySeq(_)
KeySeq(keys) ==
    IF keys = {} THEN <<>>
    ELSE LET k == CHOOSE x \in keys : TRUE
         IN  <<k>> \o KeySeq(keys \ {k})

\* key.startsWith('cached') || key.startsWith('searchCache_')
HasCachePrefix(key) ==
    \/ Head(key) \in {"cachedMovies", "cachedTvShows", "cachedTvShowsTimestamp"}
    \/ Head(key) = "searchCache" /\ Len(key) > 1

\* key.endsWith('_timestamp')
EndsWithTimestamp(key) == Len(key) > 1 /\ key[Len(key)] = "timestamp"

\* key + '_timestamp'
TimestampKey(key) == key \o <<"timestamp">>

----------------------------------------------------------------------------
(* storageManager (pages/Movie.jsx, pages/TvShows.jsx: the same text) *)

\* keysToCheck.sort((a, b) => a.time - b.time): Array.prototype.sort is stable
InsertByTime(sorted, x) ==
    LET k == Cardinality({i \in 1..Len(sorted) : sorted[i].time <= x.time})
    IN  SubSeq(sorted, 1, k) \o <<x>> \o SubSeq(sorted, k + 1, Len(sorted))

RECURSIVE SortByTime(_)
SortByTime(s) ==
    IF Len(s) <= 1 THEN s
    ELSE InsertByTime(SortByTime(SubSeq(s, 1, Len(s) - 1)), s[Len(s)])

\* the loop of clearOldCache that collects keysToCheck
KeysToCheck(store) ==
    LET IsEntry(key) ==
            /\ HasCachePrefix(key)
            /\ ~EndsWithTimestamp(key)
            /\ Truthy(getItem(store, TimestampKey(key)))
        found == SelectSeq(KeySeq(DOMAIN store), IsEntry)
    IN  [i \in 1..Len(found) |->
            [key |-> found[i],
             timestampKey |-> TimestampKey(found[i]),
             time |-> ParseInt(getItem(store, TimestampKey(found[i])))]]

\* a slip: Math.floor in place of Math.ceil
RemoveCountFloor(n) == (3 * n) \div 10

RemoveCount(n) == CeilThreeTenths(n)

\* a slip: the entries removed, their timestamps left behind
clearOldCacheKeepingStamps(store) ==
    LET sorted == SortByTime(KeysToCheck(store))
        removeCount == RemoveCount(Len(sorted))
        last == Min(removeCount, Len(sorted))
        gone == {sorted[i].key : i \in 1..last}
    IN  removeItems(store, gone)

clearOldCache(store) ==
    LET sorted == SortByTime(KeysToCheck(store))
        removeCount == RemoveCount(Len(sorted))
        last == Min(removeCount, Len(sorted))
        gone == {sorted[i].key : i \in 1..last}
                \cup {sorted[i].timestampKey : i \in 1..last}
    IN  removeItems(store, gone)

\* a slip: the write is retried without the eviction before it
safeSetNoEviction(store, key, value) ==
    IF ~QuotaExceeded(store, key, value)
    THEN [store |-> Put(store, key, value), ok |-> TRUE, threw |-> FALSE,
          calls |-> <<[op |-> "setItem", key |-> key, threw |-> FALSE]>>]
    ELSE [store |-> store, ok |-> FALSE, threw |-> FALSE,
          calls |-> <<[op |-> "setItem", key |-> key, threw |-> TRUE],
                      [op |-> "setItem", key |-> key, threw |-> TRUE]>>]

\* safeSet(key, value): the store it leaves, what it returns, and the
\* localStorage / storageManager calls it made, in order
safeSet(store, key, value) ==
    IF ~QuotaExceeded(store, key, value)
    THEN [store |-> Put(store, key, value), ok |-> TRUE, threw |-> FALSE,
          calls |-> <<[op |-> "setItem", key |-> key, threw |-> FALSE]>>]
    ELSE LET cleared == clearOldCache(store)
             first == <<[op |-> "setItem", key |-> key, threw |-> TRUE],
                        [op |-> "clearOldCache", key |-> key, threw |-> FALSE]>>
         IN  IF ~QuotaExceeded(cleared, key, value)
             THEN [store |-> Put(cleared, key, value), ok |-> TRUE,
                   threw |-> FALSE,
                   calls |-> first \o
                       <<[op |-> "setItem", key |-> key, threw |-> FALSE]>>]
             ELSE [store |-> cleared, ok |-> FALSE, threw |-> FALSE,
                   calls |-> first \o
                       <<[op |-> "setItem", key |-> key, threw |-> TRUE]>>]

----------------------------------------------------------------------------
(* The page components: what a handler or effect works on.  A world w holds *)
(* every piece of state a call may change; setX(v) is Set(w, "x", v).  Its  *)
(* log starts with the step that runs: a render, a handler, a callback.     *)

World(step) ==
    [st |-> st, ls |-> ls, inflight |-> inflight, positions |-> positions,
     scrollY |-> scrollY, timers |-> timers, url |-> url, ss |-> ss,
     img |-> img, log |-> <<step>>]

Set(w, field, value) == [w EXCEPT !.st = [@ EXCEPT ![field] = value]]

Emit(w, event) == [w EXCEPT !.log = Append(@, event)]

\* fetch(url): the request is in flight until its promise settles
Fetch(w, req) ==
    Emit([w EXCEPT !.inflight = @ \cup {req}], [op |-> "fetch", req |-> req])

SafeSetRaising(w, key, value) ==
    LET r == safeSet(w.ls, key, value)
        w1 == [w EXCEPT !.ls = r.store, !.log = @ \o r.calls]
    IN  IF r.ok THEN w1 ELSE Set(Set(w1, "error", "network"), "movies", <<>>)

\* storageManager.safeSet(key, value) from a handler
SafeSet(w, key, value) ==
    LET r == safeSet(w.ls, key, value)
    IN  [w EXCEPT !.ls = r.store, !.log = @ \o r.calls]

\* String.prototype.trim and toLowerCase on the terms of the model
Trim(text) == IF text = " " THEN "" ELSE text

ToLowerCase(text) == IF text = "A" THEN "a" ELSE text

\* what an endpoint returns for one page of a listing or a search: one chunk
ApiResults(api, query, pageNum) == <<api, query, ToStr(pageNum)>>

IsFreshInclusive(cachedTimestamp, cacheExpiry) ==
    /\ ParseInt(cachedTimestamp) # NaN
    /\ now - ParseInt(cachedTimestamp) <= cacheExpiry

\* currentTime - parseInt(cachedTimestamp) < cacheExpiry
IsFresh(cachedTimestamp, cacheExpiry) ==
    /\ ParseInt(cachedTimestamp) # NaN
    /\ now - ParseInt(cachedTimestamp) < cacheExpiry

----------------------------------------------------------------------------
(* pages/Movie.jsx *)

MAX_API_PAGE == 500

MovieCacheExpiry == 30 * 60 * 1000

\* scrollPositionMemory
savePosition(w, pageKey) ==
    Emit([w EXCEPT !.positions =
             [k \in DOMAIN @ \cup {pageKey} |->
                 IF k = pageKey THEN w.scrollY ELSE @[k]]],
         [op |-> "savePosition", key |-> pageKey, top |-> w.scrollY])

hasPositionTruthy(saved, pageKey) ==
    pageKey \in DOMAIN saved /\ saved[pageKey] # 0

hasPosition(saved, pageKey) == pageKey \in DOMAIN saved

getPosition(saved, pageKey) ==
    IF pageKey \in DOMAIN saved /\ saved[pageKey] # 0 THEN saved[pageKey] ELSE 0

\* `${searchTerm || 'browse'}_${page}`
PageKey(searchTerm, page) ==
    <<IF searchTerm # "" THEN searchTerm ELSE "browse", ToStr(page)>>

\* the useState initial values, from the route's search term and ?page=
MovieState(initialSearchTerm, initialPage) ==
    [movies |-> <<>>, keyword |-> initialSearchTerm,
     searchTerm |-> initialSearchTerm, isLoading |-> TRUE,
     isLoadingMore |-> FALSE, error |-> "none", page |-> initialPage,
     totalPages |-> 1, isSearchMode |-> initialSearchTerm # "",
     loadedPages |-> {1}, isScrollRestored |-> FALSE]

fetchMovies(w, pageNum) ==
    LET w1 == Set(Set(w, "isLoading", TRUE), "error", "none")
        validatedPage == Min(pageNum, MAX_API_PAGE)
        cachedKey == <<"cachedMovies", ToStr(validatedPage)>>
        cachedMoviesData == getItem(w.ls, cachedKey)
        cachedTimestamp == getItem(w.ls, TimestampKey(cachedKey))
        parsedData == cachedMoviesData
        hit == /\ Truthy(cachedMoviesData) /\ Truthy(cachedTimestamp)
               /\ IsFresh(cachedTimestamp, MovieCacheExpiry)
               /\ parsedData.kind = "json"
        called == [op |-> "fetchMovies", query |-> "", key |-> cachedKey,
                   append |-> FALSE, hit |-> hit]
    IN  IF hit
        THEN Set(Set(Set(Emit(w1, called),
                 "movies", parsedData.results),
                 "totalPages", IF parsedData.total_pages > MAX_API_PAGE
                               THEN MAX_API_PAGE ELSE parsedData.total_pages),
                 "isLoading", FALSE)
        ELSE Fetch(Emit(w1, called),
                   [fn |-> "fetchMovies", api |-> "PAGINATED_MOVIES",
                    query |-> "", pageNum |-> pageNum, append |-> FALSE])

\* a slip: the time of the attempt recorded (and the entry dropped) although
\* nothing was loaded
fetchMoviesSettledStamping(w, req, response) ==
    LET pageNum == req.pageNum
        cachedKey == <<"cachedMovies", ToStr(Min(pageNum, MAX_API_PAGE))>>
        failed(error) ==
            Set(Set(Set([w EXCEPT !.ls = removeItems(@, {cachedKey})],
                "error", error), "movies", <<>>), "isLoading", FALSE)
    IN  CASE response.type = "error" -> Set(failed("network"), "totalPages", 1)
          [] response.type = "malformed" ->
                Set(failed("format"), "totalPages", 1)
          [] response.results = <<>> ->
                SafeSet(failed("empty"), TimestampKey(cachedKey), Stamp(now))
          [] OTHER ->
                LET actualTotalPages == Min(response.total_pages, MAX_API_PAGE)
                    w1 == Set(Set(w, "movies", response.results),
                              "totalPages", actualTotalPages)
                    w2 == IF pageNum > actualTotalPages
                          THEN Set(w1, "page", actualTotalPages) ELSE w1
                    w3 == SafeSet(w2, cachedKey,
                                  PageData(response.results, response.total_pages,
                                           response.size))
                    w4 == SafeSet(w3, TimestampKey(cachedKey), Stamp(now))
                IN  Set(w4, "isLoading", FALSE)

\* the .then / .catch of fetchMovies' request
fetchMoviesSettled(w, req, response) ==
    LET pageNum == req.pageNum
        cachedKey == <<"cachedMovies", ToStr(Min(pageNum, MAX_API_PAGE))>>
    IN  CASE response.type = "error" ->
                Set(Set(Set(Set(w, "error", "network"), "movies", <<>>),
                    "totalPages", 1), "isLoading", FALSE)
          [] response.type = "malformed" ->
                Set(Set(Set(Set(w, "error", "format"), "movies", <<>>),
                    "totalPages", 1), "isLoading", FALSE)
          [] response.results = <<>> ->
                Set(Set(Set(w, "error", "empty"), "movies", <<>>),
                    "isLoading", FALSE)
          [] OTHER ->
                LET actualTotalPages == Min(response.total_pages, MAX_API_PAGE)
                    w1 == Set(Set(w, "movies", response.results),
                              "totalPages", actualTotalPages)
                    w2 == IF pageNum > actualTotalPages
                          THEN Set(w1, "page", actualTotalPages) ELSE w1
                    w3 == SafeSet(w2, cachedKey,
                                  PageData(response.results, response.total_pages,
                                           response.size))
                    w4 == SafeSet(w3, TimestampKey(cachedKey), Stamp(now))
                IN  Set(w4, "isLoading", FALSE)

searchMovies(w, query, pageNum, appendResults) ==
    LET cachedKey == <<"searchCache", "movie", ToLowerCase(query), ToStr(pageNum)>>
        cachedData == getItem(w.ls, cachedKey)
        cachedTimestamp == getItem(w.ls, TimestampKey(cachedKey))
        parsedData == cachedData
        hit == /\ Trim(query) # ""
               /\ Truthy(cachedData) /\ Truthy(cachedTimestamp)
               /\ IsFresh(cachedTimestamp, MovieCacheExpiry)
               /\ parsedData.kind = "json"
        called == [op |-> "searchMovies", query |-> query, key |-> cachedKey,
                   append |-> appendResults, hit |-> hit]
        w1 == Set(IF appendResults THEN Set(w, "isLoadingMore", TRUE)
                  ELSE Set(Set(w, "isLoading", TRUE), "loadedPages", {1}),
                  "error", "none")
    IN  IF Trim(query) = "" THEN Emit(w, called)
        ELSE IF hit
        THEN LET w2 == IF appendResults
                       THEN Set(Set(Set(w1,
                                "movies", w1.st.movies \o parsedData.results),
                                "loadedPages", w1.st.loadedPages \cup {pageNum}),
                                "isLoadingMore", FALSE)
                       ELSE Set(w1, "movies", parsedData.results)
                 w3 == Set(w2, "totalPages",
                           Min(parsedData.total_pages, MAX_API_PAGE))
             IN  Emit(IF appendResults THEN w3 ELSE Set(w3, "isLoading", FALSE),
                      called)
        ELSE Fetch(Emit(w1, called),
                   [fn |-> "searchMovies", api |-> "SEARCH_MOVIES",
                    query |-> query, pageNum |-> pageNum,
                    append |-> appendResults])

\* the .then / .catch of searchMovies' request
searchMoviesSettled(w, req, data) ==
    LET pageNum == req.pageNum
        appendResults == req.append
        cachedKey == <<"searchCache", "movie", ToLowerCase(req.query),
                       ToStr(pageNum)>>
        loaded(x) == IF appendResults THEN Set(x, "isLoadingMore", FALSE)
                     ELSE Set(x, "isLoading", FALSE)
    IN  CASE data.type = "error" ->
                LET w1 == Set(w, "error", "searchNetwork")
                    w2 == IF appendResults THEN w1
                          ELSE Set(Set(Set(w1, "movies", <<>>), "totalPages", 1),
                                   "isLoading", FALSE)
                IN  Set(w2, "isLoadingMore", FALSE)
          [] data.type = "malformed" ->
                LET w1 == IF appendResults THEN w
                          ELSE Set(Set(w, "movies", <<>>), "totalPages", 1)
                IN  loaded(Set(w1, "error", "searchFormat"))
          [] OTHER ->
                LET w1 == IF appendResults
                          THEN Set(Set(w, "movies", w.st.movies \o data.results),
                                   "loadedPages", w.st.loadedPages \cup {pageNum})
                          ELSE Set(w, "movies", data.results)
                    w2 == Set(w1, "totalPages",
                              Min(data.total_pages, MAX_API_PAGE))
                    w3 == SafeSet(w2, cachedKey,
                                  PageData(data.results, data.total_pages,
                                           data.size))
                    w4 == SafeSet(w3, TimestampKey(cachedKey), Stamp(now))
                IN  loaded(w4)

\* a location is the first segment of its path ('' for '/') and its page
\* parameter; NoPageParam says that the query has none
NoPageParam == 0

Location(term, pageParam) == [term |-> term, page |-> pageParam]

\* urlSearchTerm || searchParams.get('q') || '': the routes with a Movie
\* element are '/' and '/:searchTerm', and no link of the application sets q
RouteTerm(location) == location.term

\* parseInt(searchParams.get('page') || '1', 10)
InitialPage(location) ==
    IF location.page = NoPageParam THEN 1 ELSE location.page

\* navigate(to)
navigate(w, to) ==
    Emit([w EXCEPT !.url = to], [op |-> "navigate", to |-> to])

executeSearch(w, s) ==
    IF Trim(s.keyword) # ""
    THEN Set(Set(w, "searchTerm", Trim(s.keyword)), "page", 1)
    ELSE navigate(Set(w, "searchTerm", ""), Location("", NoPageParam))

handlePageChange(w, s, newPage) ==
    IF newPage >= 1
    THEN IF newPage > s.totalPages
         THEN Set(w, "page", s.totalPages)
         ELSE LET currentPageKey == PageKey(s.searchTerm, s.page)
              IN  Set(Set(savePosition(w, currentPageKey),
                      "page", newPage), "isScrollRestored", FALSE)
    ELSE Set(w, "page", 1)

SetMax(S) == CHOOSE m \in S : \A x \in S : x <= m

loadMoreResults(w, s) ==
    LET nextPage == SetMax(s.loadedPages) + 1
    IN  IF nextPage <= s.totalPages
        THEN searchMovies(w, s.searchTerm, nextPage, TRUE)
        ELSE w

clearSearch(w) ==
    Set(Set(Set(w, "keyword", ""), "searchTerm", ""), "page", 1)

\* the "Try Again" button of the error block
tryAgain(w, s) ==
    IF s.searchTerm # "" THEN searchMovies(w, s.searchTerm, s.page, FALSE)
    ELSE fetchMovies(w, s.page)

clearCache(w) ==
    LET keysToRemove == {k \in DOMAIN w.ls : HasCachePrefix(k)}
    IN  [w EXCEPT !.ls = removeItems(@, keysToRemove)]

\* the callback of the restore effect's setTimeout
restoreTimeout(w, pageKey) ==
    LET top == getPosition(w.positions, pageKey)
    IN  Set(Emit([w EXCEPT !.scrollY = top],
                 [op |-> "scrollTo", key |-> pageKey, top |-> top,
                  saved |-> TRUE]),
            "isScrollRestored", TRUE)

\* does a dependency of an effect differ from the previous render's
Changed(prev, s, deps) ==
    IF prev.mounted THEN \E d \in deps : prev.s[d] # s[d] ELSE TRUE

\* the URL effect
urlEffect(w, s) ==
    IF s.searchTerm # ""
    THEN navigate(w, Location(s.searchTerm,
                              IF s.page > 1 THEN s.page ELSE NoPageParam))
    ELSE IF s.page # 1 THEN navigate(w, Location("", s.page))
    ELSE navigate(w, Location("", NoPageParam))

\* the effect that loads the list for the current search term and page
fetchEffect(w, s) ==
    IF s.searchTerm # ""
    THEN searchMovies(Set(w, "isSearchMode", TRUE), s.searchTerm, s.page, FALSE)
    ELSE fetchMovies(Set(w, "isSearchMode", FALSE), s.page)

\* the effect that initializes from the route's search term
initEffect(w, initialSearchTerm) ==
    IF initialSearchTerm # ""
    THEN Set(Set(Set(w, "keyword", initialSearchTerm),
             "searchTerm", initialSearchTerm), "isSearchMode", TRUE)
    ELSE w

\* the effect that restores the scroll position
restoreEffect(w, s) ==
    IF ~s.isLoading /\ ~s.isScrollRestored
    THEN LET pageKey == PageKey(s.searchTerm, s.page)
         IN  IF hasPosition(w.positions, pageKey)
             THEN Emit([w EXCEPT !.timers = @ \cup {pageKey}],
                       [op |-> "setTimeout", key |-> pageKey])
             ELSE Set(Emit([w EXCEPT !.scrollY = 0],
                           [op |-> "scrollTo", key |-> pageKey, top |-> 0,
                            saved |-> FALSE]),
                      "isScrollRestored", TRUE)
    ELSE w

\* the cleanup of the effect that saves the position on leaving
saveCleanup(w, prev) ==
    savePosition(w, PageKey(prev.s.searchTerm, prev.s.page))

\* one commit of the Movie component: the cleanups of the effects whose
\* dependencies changed, then those effects in source order, all closing over
\* the rendered state s
MovieEffects(w, prev, s, initialSearchTerm) ==
    LET keyChanged == Changed(prev, s, {"searchTerm", "page"})
        w1 == IF prev.mounted /\ keyChanged THEN saveCleanup(w, prev) ELSE w
        w2 == IF keyChanged THEN urlEffect(w1, s) ELSE w1
        w3 == IF keyChanged THEN fetchEffect(w2, s) ELSE w2
        w4 == IF (IF prev.mounted
                  THEN prev.initialSearchTerm # initialSearchTerm ELSE TRUE)
              THEN initEffect(w3, initialSearchTerm) ELSE w3
        w5 == IF Changed(prev, s, {"isLoading", "page", "searchTerm",
                                   "isScrollRestored"})
              THEN restoreEffect(w4, s) ELSE w4
    IN  w5

----------------------------------------------------------------------------
(* pages/TvShows.jsx *)

TvCacheExpiry == 30 * 60 * 1000

TvSearchCacheExpiry == 60 * 60 * 1000

fetchLimit == 100

\* JSON.stringify({page, results, totalPages})
TvPageData(pageNum, results, total, size) ==
    [kind |-> "json", page |-> pageNum, results |-> results,
     totalPages |-> total, size |-> size]

\* JSON.stringify(allResults)
AllResultsData(allResults) ==
    [kind |-> "json", results |-> allResults,
     size |-> IF allResults = <<>> THEN 2 ELSE RespSize * Len(allResults)]

TvState ==
    [tvShows |-> <<>>, allTvShows |-> <<>>, keyword |-> "", searchTerm |-> "",
     isLoading |-> TRUE, isSearching |-> FALSE, error |-> "none", page |-> 1,
     totalPages |-> 1]

fetchTvShows(w, pageNum) ==
    LET w1 == Set(Set(w, "isLoading", TRUE), "error", "none")
        validatedPage == Min(pageNum, MAX_API_PAGE)
        cachedTvShowsData == getItem(w.ls, <<"cachedTvShows">>)
        cachedTimestamp == getItem(w.ls, <<"cachedTvShowsTimestamp">>)
        parsedData == cachedTvShowsData
        hit == /\ Truthy(cachedTvShowsData) /\ Truthy(cachedTimestamp)
               /\ IsFresh(cachedTimestamp, TvCacheExpiry)
               /\ parsedData.kind = "json"
               /\ parsedData.page = validatedPage
        called == [op |-> "fetchTvShows", key |-> <<"cachedTvShows">>,
                   pageNum |-> pageNum, hit |-> hit]
    IN  IF hit
        THEN Set(Set(Set(Emit(w1, called),
                 "tvShows", parsedData.results),
                 "totalPages", parsedData.totalPages),
                 "isLoading", FALSE)
        ELSE Fetch(Emit(w1, called),
                   [fn |-> "fetchTvShows", api |-> "PAGINATED_TV_SHOWS",
                    query |-> "", pageNum |-> validatedPage,
                    requested |-> pageNum])

\* the .then / .catch of fetchTvShows' request
fetchTvShowsSettled(w, req, response) ==
    LET pageNum == req.requested
        validatedPage == req.pageNum
    IN  CASE response.type = "error" ->
                Set(Set(Set(Set(w, "error", "network"), "tvShows", <<>>),
                    "totalPages", 1), "isLoading", FALSE)
          [] response.type = "malformed" ->
                Set(Set(Set(Set(w, "error", "format"), "tvShows", <<>>),
                    "totalPages", 1), "isLoading", FALSE)
          [] response.results = <<>> ->
                Set(Set(Set(w, "error", "empty"), "tvShows", <<>>),
                    "isLoading", FALSE)
          [] OTHER ->
                LET reportedPages == response.total_pages
                    actualTotalPages ==
                        IF reportedPages > 0
                        THEN Min(reportedPages, MAX_API_PAGE) ELSE 1
                    w1 == Set(Set(w, "tvShows", response.results),
                              "totalPages", actualTotalPages)
                    w2 == IF pageNum > actualTotalPages
                          THEN Set(w1, "page", actualTotalPages) ELSE w1
                    w3 == SafeSet(w2, <<"cachedTvShows">>,
                                  TvPageData(validatedPage, response.results,
                                             actualTotalPages, response.size))
                    w4 == SafeSet(w3, <<"cachedTvShowsTimestamp">>, Stamp(now))
                IN  Set(w4, "isLoading", FALSE)

\* fetchAllTvShows of the render whose state is s, up to its first await
fetchAllTvShows(w, s) ==
    LET searchTerm == s.searchTerm
        cachedKey == <<"searchCache", "tvShow", ToLowerCase(searchTerm)>>
        cachedSearchData == getItem(w.ls, cachedKey)
        cachedTimestamp == getItem(w.ls, TimestampKey(cachedKey))
        parsedData == cachedSearchData
        hit == /\ Truthy(cachedSearchData) /\ Truthy(cachedTimestamp)
               /\ searchTerm # ""
               /\ IsFresh(cachedTimestamp, TvSearchCacheExpiry)
               /\ parsedData.kind = "json"
        called == [op |-> "fetchAllTvShows", query |-> searchTerm,
                   key |-> cachedKey, append |-> FALSE, hit |-> hit]
    IN  IF hit
        THEN Set(Set(Emit(w, called), "allTvShows", parsedData.results),
                 "isSearching", FALSE)
        ELSE Fetch(Set(Set(Set(Emit(w, called), "isSearching", TRUE),
                       "error", "none"), "allTvShows", <<>>),
                   [fn |-> "fetchAllTvShows", api |-> "PAGINATED_TV_SHOWS",
                    query |-> "", pageNum |-> 1, searchTerm |-> searchTerm,
                    allResults |-> <<>>])

\* fetchAllTvShows after its loop
fetchAllTvShowsDone(w, searchTerm, allResults) ==
    LET cachedKey == <<"searchCache", "tvShow", ToLowerCase(searchTerm)>>
        w1 == Set(w, "allTvShows", allResults)
        w2 == IF searchTerm # ""
              THEN SafeSet(SafeSet(w1, cachedKey, AllResultsData(allResults)),
                           TimestampKey(cachedKey), Stamp(now))
              ELSE w1
    IN  Set(w2, "isSearching", FALSE)

\* fetchAllTvShows from the await of the request of one page to the next await
fetchAllTvShowsSettled(w, req, data) ==
    IF data.type = "error"
    THEN Set(Set(w, "error", "http"), "isSearching", FALSE)
    ELSE IF data.type = "json" /\ data.results # <<>>
    THEN LET allResults == req.allResults \o data.results
             currentPage == req.pageNum + 1
             w1 == IF currentPage % 5 = 0
                   THEN Set(w, "allTvShows", w.st.allTvShows \o data.results)
                   ELSE w
             hasMorePages ==
                 ~(req.pageNum >= Min(data.total_pages, MAX_API_PAGE))
         IN  IF hasMorePages /\ currentPage <= fetchLimit
             THEN Fetch(w1, [req EXCEPT !.pageNum = currentPage,
                                        !.allResults = allResults])
             ELSE fetchAllTvShowsDone(w1, req.searchTerm, allResults)
    ELSE fetchAllTvShowsDone(w, req.searchTerm, req.allResults)

executeSearchTv(w, s) ==
    LET w1 == Set(w, "searchTerm", s.keyword)
    IN  IF s.keyword = ""
        THEN fetchTvShows(Set(w1, "allTvShows", <<>>), s.page)
        ELSE IF s.allTvShows = <<>> THEN fetchAllTvShows(w1, s) ELSE w1

handlePageChangeTv(w, s, newPage) ==
    IF newPage >= 1
    THEN IF newPage > s.totalPages THEN Set(w, "page", s.totalPages)
         ELSE Set(w, "page", newPage)
    ELSE Set(w, "page", 1)

\* the "Clear Search" button
clearSearchTv(w) ==
    fetchTvShows(Set(Set(w, "keyword", ""), "searchTerm", ""), 1)

\* the "Try Again" button
tryAgainTv(w, s) ==
    IF s.searchTerm # "" THEN fetchAllTvShows(w, s) ELSE fetchTvShows(w, s.page)

\* one commit of the TvShows component: its two effects in source order
TvEffects(w, prev, s) ==
    LET w1 == IF Changed(prev, s, {"page"}) THEN fetchTvShows(w, s.page) ELSE w
        lengthChanged ==
            IF prev.mounted THEN Len(prev.s.allTvShows) # Len(s.allTvShows)
            ELSE TRUE
        w2 == IF Changed(prev, s, {"searchTerm"}) \/ lengthChanged
              THEN IF s.searchTerm # "" /\ Len(s.allTvShows) = 0
                   THEN fetchAllTvShows(w1, s) ELSE w1
              ELSE w1
    IN  w2

----------------------------------------------------------------------------
(* utils/StorageHandler.jsx *)

\* `__meta_${key}`
MetaKey(key) == <<"__meta">> \o key

\* key.startsWith('__meta_')
IsMetaKey(key) == Head(key) = "__meta" /\ Len(key) > 1

\* key.includes(word), for a word of two tokens
Includes(key, a, b) == \E i \in 1..(Len(key) - 1) : key[i] = a /\ key[i + 1] = b

\* the items clearLRUItems never deletes
IsProtected(key) == Includes(key, "user", "settings") \/ Includes(key, "auth", "token")

\* JSON.stringify({ lastAccessed: Date.now() })
Meta(t) == [kind |-> "meta", lastAccessed |-> t, size |-> 30]

\* the loop of clearLRUItems that collects items; t is Date.now()
LRUItems(store, t) ==
    LET keys == SelectSeq(KeySeq(DOMAIN store), LAMBDA k : ~IsMetaKey(k))
        LastAccessed(key) ==
            LET meta == getItem(store, MetaKey(key))
            IN  IF meta.kind = "meta" /\ meta.lastAccessed # 0
                THEN meta.lastAccessed ELSE t
    IN  [i \in 1..Len(keys) |->
            [key |-> keys[i],
             lastAccessed |-> LastAccessed(keys[i]),
             size |-> getItem(store, keys[i]).size + KeyLength(keys[i])]]

\* a slip: the comparator reversed, b.lastAccessed - a.lastAccessed
InsertNewestFirst(sorted, x) ==
    LET k == Cardinality({i \in 1..Len(sorted) :
                             sorted[i].lastAccessed >= x.lastAccessed})
    IN  SubSeq(sorted, 1, k) \o <<x>> \o SubSeq(sorted, k + 1, Len(sorted))

\* items.sort((a, b) => a.lastAccessed - b.lastAccessed)
InsertByLastAccessed(sorted, x) ==
    LET k == Cardinality({i \in 1..Len(sorted) :
                             sorted[i].lastAccessed <= x.lastAccessed})
    IN  SubSeq(sorted, 1, k) \o <<x>> \o SubSeq(sorted, k + 1, Len(sorted))

RECURSIVE SortByLastAccessed(_)
SortByLastAccessed(s) ==
    IF Len(s) <= 1 THEN s
    ELSE InsertByLastAccessed(SortByLastAccessed(SubSeq(s, 1, Len(s) - 1)),
                              s[Len(s)])

\* a slip: the loop skips the user settings only
RECURSIVE LRULoopSettingsOnly(_, _, _, _, _)
LRULoopSettingsOnly(items, i, store, freedBytes, bytesNeeded) ==
    IF i > Len(items) THEN [store |-> store, freedBytes |-> freedBytes]
    ELSE IF Includes(items[i].key, "user", "settings")
    THEN LRULoopSettingsOnly(items, i + 1, store, freedBytes, bytesNeeded)
    ELSE LET left == removeItems(store, {items[i].key, MetaKey(items[i].key)})
             freed == freedBytes + items[i].size
         IN  IF freed >= bytesNeeded
             THEN [store |-> left, freedBytes |-> freed]
             ELSE LRULoopSettingsOnly(items, i + 1, left, freed, bytesNeeded)

\* for (const item of items) { ... } from item i on
RECURSIVE LRULoop(_, _, _, _, _)
LRULoop(items, i, store, freedBytes, bytesNeeded) ==
    IF i > Len(items) THEN [store |-> store, freedBytes |-> freedBytes]
    ELSE IF IsProtected(items[i].key)
    THEN LRULoop(items, i + 1, store, freedBytes, bytesNeeded)
    ELSE LET left == removeItems(store, {items[i].key, MetaKey(items[i].key)})
             freed == freedBytes + items[i].size
         IN  IF freed >= bytesNeeded
             THEN [store |-> left, freedBytes |-> freed]
             ELSE LRULoop(items, i + 1, left, freed, bytesNeeded)

clearLRUItems(store, bytesNeeded, t) ==
    LRULoop(SortByLastAccessed(LRUItems(store, t)), 1, store, 0, bytesNeeded)

\* a JavaScript value handed to the storage: a string of some length, or a
\* time in milliseconds (13 digits when written in decimal)
JsNull == [type |-> "null"]

JsString(text, length) == [type |-> "string", text |-> text, length |-> length]

JsNumber(n) == [type |-> "number", n |-> n, length |-> 13]

\* JSON.stringify(value).length: a string gains its two quotes
StringifiedLength(value) ==
    IF value.type = "string" THEN value.length + 2 ELSE value.length

\* btoa(encodeURIComponent(data)).length for the JSON text of a data URL of
\* the given length: the quotes and ":", "/", ";", "," are escaped to three
\* characters each, then every three characters become four
CompressedLength(length) == 4 * ((length + 12 + 2) \div 3)

CompressionThreshold == 10 * 1024

\* the text safeSetItem writes for a value
Serialized(value, useCompression) ==
    LET length == StringifiedLength(value)
    IN  IF useCompression /\ length > CompressionThreshold
        THEN [kind |-> "compressed", value |-> value,
              size |-> CompressedLength(length)]
        ELSE [kind |-> "json", value |-> value, size |-> length]

\* serializedValue.match(/^[A-Za-z0-9+/=]+$/)
LooksCompressed(text) ==
    \/ text.kind = "compressed"
    \/ text.kind = "json" /\ text.value.type = "number"

\* JSON.parse(decompress(text)) for a text that looks compressed: atob throws
\* on a length of 1 modulo 4 and decompress then returns the text as it is;
\* on other digit strings atob yields bytes that are no JSON
ParseDecompressed(text) ==
    IF text.kind = "compressed" THEN text.value
    ELSE IF text.size % 4 = 1 THEN text.value
    ELSE JsNull

\* JSON.parse of what safeGetItem read
Parsed(text) ==
    IF text.kind \in {"json", "compressed"}
    THEN IF LooksCompressed(text) THEN ParseDecompressed(text) ELSE text.value
    ELSE IF text.kind = "meta" THEN [type |-> "object"]
    ELSE JsNull

TestKey == <<"__storage_test__">>

\* isStorageAvailable: writes and removes the test item
isStorageAvailable(store) ==
    ~QuotaExceeded(store, TestKey, [kind |-> "json", size |-> 16])

\* updateMetadata(key); t is Date.now()
updateMetadata(store, key, t) ==
    IF QuotaExceeded(store, MetaKey(key), Meta(t)) THEN store
    ELSE Put(store, MetaKey(key), Meta(t))

DefaultBytesNeeded == 200 * 1024

\* safeSetItem(key, value) on the two storages; path names the branch taken
safeSetItem(local, session, key, value, t) ==
    LET localAvailable == isStorageAvailable(local)
        sessionAvailable == isStorageAvailable(session)
        serializedValue == Serialized(value, TRUE)
        failed == [ls |-> local, ss |-> session, ok |-> FALSE, path |-> "none"]
        toSession(left) ==
            IF QuotaExceeded(session, key, serializedValue)
            THEN [failed EXCEPT !.ls = left]
            ELSE [ls |-> left, ss |-> Put(session, key, serializedValue),
                  ok |-> TRUE, path |-> "session"]
    IN  IF key = <<>> \/ (~localAvailable /\ ~sessionAvailable) THEN failed
        ELSE IF ~localAvailable THEN toSession(local)
        ELSE IF ~QuotaExceeded(local, key, serializedValue)
        THEN [ls |-> updateMetadata(Put(local, key, serializedValue), key, t),
              ss |-> session, ok |-> TRUE, path |-> "local"]
        ELSE LET cleared == clearLRUItems(local, DefaultBytesNeeded, t).store
             IN  IF ~QuotaExceeded(cleared, key, serializedValue)
                 THEN [ls |-> updateMetadata(Put(cleared, key, serializedValue),
                                             key, t),
                       ss |-> session, ok |-> TRUE, path |-> "evicted"]
                 ELSE IF sessionAvailable THEN toSession(cleared)
                 ELSE [failed EXCEPT !.ls = cleared]

\* safeGetItem(key): the value, and the storage with the access recorded
safeGetItem(local, key, t) ==
    LET serializedValue == getItem(local, key)
    IN  IF key = <<>> \/ ~Truthy(serializedValue)
        THEN [ls |-> local, value |-> JsNull]
        ELSE [ls |-> updateMetadata(local, key, t),
              value |-> Parsed(serializedValue)]

\* safeRemoveItem(key)
safeRemoveItem(local, key) ==
    IF key = <<>> THEN local ELSE removeItems(local, {key, MetaKey(key)})

----------------------------------------------------------------------------
(* components/ListItem.jsx *)

\* const memoryImageCache = new Map(); const imagePreloadQueue = [];
\* let isPreloading = false
NoImages ==
    [memoryImageCache |-> << >>, imagePreloadQueue |-> << >>,
     isPreloading |-> FALSE]

ImageCacheExpiry == 7 * 24 * 60 * 60 * 1000

MaxCachedBlob == 300 * 1024

\* the props of the list item on the page
ItemProps == [id |-> 1, posterPath |-> "/poster.jpg"]

\* reader.result of readAsDataURL(blob): "data:image/jpeg;base64," and four
\* characters for every three bytes
DataUrl(props, size) ==
    JsString(<<"data", ToStr(props.id), props.posterPath>>,
             23 + 4 * ((size + 2) \div 3))

ThumbnailUrl(props) == JsString(<<"w92", props.posterPath>>, 44)

FullImageUrl(props) == JsString(<<"w500", props.posterPath>>, 45)

\* a JavaScript value in a condition
JsTruthy(value) ==
    /\ value.type # "null"
    /\ value.type = "number" => value.n # 0
    /\ value.type = "string" => value.length # 0

ItemState ==
    [imgSrc |-> JsNull, thumbnailSrc |-> JsNull, imageLoading |-> TRUE,
     imageError |-> FALSE, isIntersecting |-> FALSE, highResLoaded |-> FALSE]

SafeSetItem(w, key, value) ==
    LET r == safeSetItem(w.ls, w.ss, key, value, now)
    IN  Emit([w EXCEPT !.ls = r.ls, !.ss = r.ss],
             [op |-> "safeSetItem", key |-> key, value |-> value,
              ok |-> r.ok, path |-> r.path])

SafeRemoveItem(w, key) ==
    Emit([w EXCEPT !.ls = safeRemoveItem(@, key)],
         [op |-> "safeRemoveItem", key |-> key])

\* imageStorage.safeStore
safeStore(w, key, value, timestampKey, timestamp) ==
    SafeSetItem(SafeSetItem(w, key, value), timestampKey, timestamp)

\* memoryImageCache.set(key, value)
MemorySet(w, key, value) ==
    Emit([w EXCEPT !.img.memoryImageCache =
             [k \in DOMAIN @ \cup {key} |-> IF k = key THEN value ELSE @[k]]],
         [op |-> "memoryImageCache.set", key |-> key, value |-> value])

\* new Image(): an object that is none of those still loading
NewImage(requests) ==
    CHOOSE n \in 1..(Cardinality(requests) + 1) :
        \A r \in requests : r.fn = "preload" => r.image # n

\* a slip: the next load starts although one is under way
processPreloadQueueUnguarded(w) ==
    IF w.img.imagePreloadQueue = <<>> THEN w
    ELSE LET nextItem == Head(w.img.imagePreloadQueue)
         IN  Fetch([w EXCEPT !.img.isPreloading = TRUE,
                             !.img.imagePreloadQueue = Tail(@)],
                   [fn |-> "preload", src |-> nextItem,
                    image |-> NewImage(w.inflight)])

processPreloadQueue(w) ==
    IF w.img.isPreloading \/ w.img.imagePreloadQueue = <<>> THEN w
    ELSE LET nextItem == Head(w.img.imagePreloadQueue)
         IN  Fetch([w EXCEPT !.img.isPreloading = TRUE,
                             !.img.imagePreloadQueue = Tail(@)],
                   [fn |-> "preload", src |-> nextItem,
                    image |-> NewImage(w.inflight)])

\* a slip: the callback leaves the rest of the queue to the next push
preloadSettledIdle(w) ==
    [w EXCEPT !.img.isPreloading = FALSE]

\* img.onload and img.onerror of the preload
preloadSettled(w) ==
    processPreloadQueue([w EXCEPT !.img.isPreloading = FALSE])

IsValidImageInclusive(cachedImage, cachedTimestamp) ==
    /\ JsTruthy(cachedImage) /\ JsTruthy(cachedTimestamp)
    /\ cachedTimestamp.type = "number"
    /\ now - cachedTimestamp.n <= ImageCacheExpiry

\* cachedImage && cachedTimestamp && currentTime - cachedTimestamp < cacheExpiry
IsValidImage(cachedImage, cachedTimestamp) ==
    /\ JsTruthy(cachedImage) /\ JsTruthy(cachedTimestamp)
    /\ cachedTimestamp.type = "number"
    /\ now - cachedTimestamp.n < ImageCacheExpiry

\* the effect that loads the image once the item is visible
loadImageEffect(w, s, props) ==
    IF ~s.isIntersecting THEN w
    ELSE
    LET w1 == Set(Set(Set(w, "imageLoading", TRUE), "imageError", FALSE),
                  "highResLoaded", FALSE)
        memCacheKey == <<ToStr(props.id), props.posterPath>>
        imageKey == <<"image", ToStr(props.id)>>
        timestampKey == TimestampKey(imageKey)
        readImage == safeGetItem(w.ls, imageKey, now)
        cachedImage == readImage.value
        readTimestamp == safeGetItem(readImage.ls, timestampKey, now)
        cachedTimestamp == readTimestamp.value
        w2 == Emit([w1 EXCEPT !.ls = readTimestamp.ls],
                   [op |-> "safeGetItem", key |-> imageKey,
                    image |-> cachedImage, timestamp |-> cachedTimestamp])
        valid == IsValidImage(cachedImage, cachedTimestamp)
        w3 == IF JsTruthy(cachedImage) /\ JsTruthy(cachedTimestamp)
              THEN SafeRemoveItem(SafeRemoveItem(w2, imageKey), timestampKey)
              ELSE w2
        w4 == Set(w3, "thumbnailSrc", ThumbnailUrl(props))
        w5 == processPreloadQueue(
                  Emit([w4 EXCEPT !.img.imagePreloadQueue =
                                      Append(@, FullImageUrl(props))],
                       [op |-> "imagePreloadQueue.push",
                        url |-> FullImageUrl(props)]))
    IN  IF memCacheKey \in DOMAIN w.img.memoryImageCache
        THEN Emit(Set(Set(Set(w1,
                  "imgSrc", w.img.memoryImageCache[memCacheKey]),
                  "imageLoading", FALSE), "highResLoaded", TRUE),
                  [op |-> "memoryImageCache.get", key |-> memCacheKey])
        ELSE IF valid
        THEN MemorySet(Emit(Set(Set(Set(w2, "imgSrc", cachedImage),
                            "imageLoading", FALSE), "highResLoaded", TRUE),
                            [op |-> "useCached", key |-> imageKey]),
                       memCacheKey, cachedImage)
        ELSE Fetch(w5, [fn |-> "image", src |-> FullImageUrl(props),
                        props |-> props, thumbnailSrc |-> s.thumbnailSrc])

imageSettledUnlimited(w, req, response) ==
    IF response.type = "error" THEN Set(w, "imgSrc", req.thumbnailSrc)
    ELSE [w EXCEPT !.inflight =
             @ \cup {[fn |-> "reader", props |-> req.props,
                      size |-> response.size]}]

\* the .then(blob => ...) and the .catch of the image request
imageSettled(w, req, response) ==
    IF response.type = "error" THEN Set(w, "imgSrc", req.thumbnailSrc)
    ELSE IF response.size > MaxCachedBlob THEN w
    ELSE [w EXCEPT !.inflight =
             @ \cup {[fn |-> "reader", props |-> req.props,
                      size |-> response.size]}]

\* reader.onloadend
readerLoadEnd(w, req) ==
    LET props == req.props
        memCacheKey == <<ToStr(props.id), props.posterPath>>
        imageKey == <<"image", ToStr(props.id)>>
        base64data == DataUrl(props, req.size)
        w1 == MemorySet(w, memCacheKey, base64data)
        w2 == Set(Set(w1, "imgSrc", base64data), "highResLoaded", TRUE)
    IN  safeStore(w2, imageKey, base64data, TimestampKey(imageKey),
                  JsNumber(now))

\* the effect that loads the thumbnail: new Image() with src thumbnailSrc
thumbnailEffect(w, s) ==
    IF ~JsTruthy(s.thumbnailSrc) THEN w
    ELSE [w EXCEPT !.inflight =
             @ \cup {[fn |-> "thumbnail", src |-> s.thumbnailSrc,
                      highResLoaded |-> s.highResLoaded]}]

\* img.onload of the thumbnail
thumbnailLoaded(w, req) ==
    IF ~req.highResLoaded
    THEN Set(Set(w, "imgSrc", req.src), "imageLoading", FALSE)
    ELSE w

handleImageError(w) ==
    Set(Set(w, "imageError", TRUE), "imageLoading", FALSE)

\* one commit of a ListItem: its effects in source order
ItemEffects(w, prev, s, props) ==
    LET w1 == IF Changed(prev, s, {"isIntersecting", "thumbnailSrc"})
              THEN loadImageEffect(w, s, props) ELSE w
        w2 == IF Changed(prev, s, {"thumbnailSrc", "highResLoaded"})
              THEN thumbnailEffect(w1, s) ELSE w1
    IN  w2

----------------------------------------------------------------------------
(* components/SeasonEpisodes.jsx *)

SeasonCacheExpiry == 24 * 60 * 60 * 1000

\* the tvId prop
TvId == 1

NoError == [kind |-> "none"]

\* `The API rate limit was exceeded. Retrying in ${retryDelay / 1000}
\* seconds... (Attempt ${retryCount + 1}/3)`
RetryingIn(retryDelay, retryCount) ==
    [kind |-> "retrying", seconds |-> retryDelay \div 1000,
     attempt |-> retryCount + 1]

\* err.message of the errors thrown in fetchSeasonEpisodes
Message(kind) == [kind |-> kind]

\* err.message.includes('rate limit exceeded')
IsRateLimit(error) == error.kind = "rateLimit"

\* error.includes('Retrying in')
IncludesRetryingIn(error) == error.kind = "retrying"

SeasonState ==
    [seasonData |-> Null, selectedSeason |-> 1, isLoading |-> FALSE,
     error |-> NoError, activeEpisode |-> 0, showPlayer |-> FALSE,
     retryCount |-> 0, retryDelay |-> 2000]

\* what a fetchSeasonEpisodes created by useCallback in the render of state s
\* closes over
Closure(s) ==
    [selectedSeason |-> s.selectedSeason, retryCount |-> s.retryCount,
     retryDelay |-> s.retryDelay]

SeasonKey(c) == <<"tvShow", ToStr(TvId), "season", ToStr(c.selectedSeason)>>

\* fetchSeasonEpisodes(skipCache) up to its fetch; c is its closure
fetchSeasonEpisodes(w, c, skipCache) ==
    LET w1 == Set(Set(w, "isLoading", TRUE), "error", NoError)
        w2 == IF ~skipCache
              THEN Set(Set(w1, "activeEpisode", 0), "showPlayer", FALSE)
              ELSE w1
        cacheKey == SeasonKey(c)
        cachedData == getItem(w.ls, cacheKey)
        cachedTimestamp == getItem(w.ls, TimestampKey(cacheKey))
        hit == /\ ~skipCache
               /\ Truthy(cachedData) /\ Truthy(cachedTimestamp)
               /\ IsFresh(cachedTimestamp, SeasonCacheExpiry)
               /\ cachedData.kind = "json"
        called == [op |-> "fetchSeasonEpisodes", skipCache |-> skipCache,
                   closure |-> c, hit |-> hit]
    IN  IF hit
        THEN Set(Set(Emit(w2, called), "seasonData", cachedData),
                 "isLoading", FALSE)
        ELSE Fetch(Emit(w2, called),
                   [fn |-> "fetchSeasonEpisodes", closure |-> c,
                    skipCache |-> skipCache])

\* the catch block, then the finally block
seasonFailed(w, c, error) ==
    LET w1 == IF IsRateLimit(error) /\ c.retryCount < 3
              THEN Emit([Set(w, "error", RetryingIn(c.retryDelay, c.retryCount))
                            EXCEPT !.timers =
                                @ \cup {[closure |-> c, delay |-> c.retryDelay]}],
                        [op |-> "setTimeout", closure |-> c,
                         delay |-> c.retryDelay])
              ELSE Set(w, "error", error)
    IN  Set(w1, "isLoading", FALSE)

\* fetchSeasonEpisodes from the answer of its fetch on
seasonSettled(w, req, response) ==
    LET c == req.closure
        cacheKey == SeasonKey(c)
        data == [kind |-> "json", season |-> c.selectedSeason,
                 size |-> response.size]
        w1 == Set(Set(Set(w, "retryCount", 0), "retryDelay", 2000),
                  "seasonData", data)
        stored == Put(w.ls, cacheKey, data)
    IN  CASE response.type = "429" -> seasonFailed(w, c, Message("rateLimit"))
          [] response.type = "401" -> seasonFailed(w, c, Message("auth"))
          [] response.type = "error" -> seasonFailed(w, c, Message("http"))
          [] QuotaExceeded(w.ls, cacheKey, data) ->
                seasonFailed(w1, c, Message("quota"))
          [] QuotaExceeded(stored, TimestampKey(cacheKey), Stamp(now)) ->
                seasonFailed([w1 EXCEPT !.ls = stored], c, Message("quota"))
          [] OTHER ->
                Set([w1 EXCEPT !.ls = Put(stored, TimestampKey(cacheKey),
                                          Stamp(now))],
                    "isLoading", FALSE)

\* the callback of setTimeout in the catch block
retryTimeout(w, timer) ==
    fetchSeasonEpisodes(
        Set(Set(w, "retryCount", w.st.retryCount + 1),
            "retryDelay", w.st.retryDelay * 2),
        timer.closure, TRUE)

handleRetry(w, s) ==
    fetchSeasonEpisodes(Set(Set(w, "retryCount", 0), "retryDelay", 2000),
                        Closure(s), TRUE)

\* one commit of SeasonEpisodes: the effect runs again whenever
\* fetchSeasonEpisodes is a new function
SeasonEffects(w, prev, s) ==
    IF Changed(prev, s, {"selectedSeason", "retryCount", "retryDelay"})
    THEN fetchSeasonEpisodes(w, Closure(s), FALSE)
    ELSE w

----------------------------------------------------------------------------
(* SpecFn: the storage functions on drawn inputs *)

NoCall == [fn |-> "none"]
NoRet == [fn |-> "none"]

\* the i-th cache entry a drawn storage may hold
EntryKey(i) ==
    IF i % 2 = 1 THEN <<"cachedMovies", ToStr(i)>>
    ELSE <<"searchCache", "movie", "a", ToStr(i)>>

\* a base64 data URL kept by the poster cache
ImageData(id, size) == [kind |-> "image", id |-> id, size |-> size]

\* per entry: 0 absent, 1..MaxStamp data with that timestamp,
\* MaxStamp + 1 data whose timestamp was never written
StoreOf(shape, other) ==
    LET held == {i \in DOMAIN shape : shape[i] > 0}
        stamped == {i \in held : shape[i] <= MaxStamp}
        keys == {EntryKey(i) : i \in held}
                \cup {TimestampKey(EntryKey(i)) : i \in stamped}
                \cup (IF other THEN {<<"image", "1">>, <<"cachedTvShows">>,
                                     <<"cachedTvShowsTimestamp">>}
                      ELSE {})
    IN  [k \in keys |->
            IF k = <<"image", "1">> THEN ImageData("1", 20)
            ELSE IF k = <<"cachedTvShowsTimestamp">> THEN Stamp(TickMs)
            ELSE IF EndsWithTimestamp(k)
                 THEN Stamp(shape[CHOOSE i \in stamped :
                                      TimestampKey(EntryKey(i)) = k] * TickMs)
                 ELSE PageData(k, 1, 20)]

DrawnStores ==
    {StoreOf(shape, other) :
        shape \in [1..MaxEntries -> 0..(MaxStamp + 1)], other \in BOOLEAN}

\* the i-th item of a storage drawn for clearLRUItems; the last is protected
ItemKey(i) == IF i > MaxItems THEN <<"user", "settings">> ELSE <<"image", ToStr(i)>>

\* per item: 0 absent, 1..MaxStamp last accessed then, MaxStamp + 1 no metadata
LRUStoreOf(shape) ==
    LET held == {i \in DOMAIN shape : shape[i] > 0}
        noted == {i \in held : shape[i] <= MaxStamp}
        keys == {ItemKey(i) : i \in held} \cup {MetaKey(ItemKey(i)) : i \in noted}
    IN  [k \in keys |->
            IF IsMetaKey(k)
            THEN Meta(shape[CHOOSE i \in noted : MetaKey(ItemKey(i)) = k] * TickMs)
            ELSE ImageData(k[Len(k)],
                           10 * (CHOOSE i \in held : ItemKey(i) = k))]

\* more items the eviction must keep: 'auth_token', last accessed before
\* every other item, and 'backup_auth_token_2', which has no metadata
Credentials ==
    [k \in {<<"auth", "token">>, MetaKey(<<"auth", "token">>),
            <<"backup", "auth", "token", "2">>} |->
        IF IsMetaKey(k) THEN Meta(1) ELSE ImageData(k[Len(k)], 40)]

DrawnLRUStores ==
    {LRUStoreOf(shape) @@ more :
        shape \in [1..(MaxItems + 1) -> 0..(MaxStamp + 1)],
        more \in {<< >>, Credentials}}

DrawnBytesNeeded == {1, 17, 35, 60, 200 * 1024}

DrawnCalls ==
    [fn : {"clearOldCache"}, store : DrawnStores]
    \cup [fn : {"safeSet"},
          store : {s \in DrawnStores : Used(s) <= quota},
          key : {EntryKey(1), TimestampKey(EntryKey(1)), EntryKey(MaxEntries + 1)},
          value : {Stamp(TickMs * (MaxStamp + 1)),
                   PageData("new", 1, 20), PageData("new", 1, 100)}]
    \cup [fn : {"clearLRUItems"}, store : DrawnLRUStores,
          bytesNeeded : DrawnBytesNeeded]

pageVars ==
    <<route, st, view, url, inflight, positions, scrollY, timers, log, events,
      ss, img>>

NoPage ==
    /\ route = "none"
    /\ st = [mounted |-> FALSE]
    /\ view = [mounted |-> FALSE]
    /\ url = Location("", NoPageParam)
    /\ inflight = {}
    /\ positions = << >>
    /\ scrollY = 0
    /\ timers = {}
    /\ log = << >>
    /\ events = 0
    /\ ss = << >>
    /\ img = NoImages

InitFn ==
    /\ now = TickMs * (MaxStamp + 1)
    /\ ls = << >>
    /\ quota = FnQuota
    /\ NoPage
    /\ ret = NoRet
    /\ call \in DrawnCalls

ApplyClearOldCache ==
    /\ call.fn = "clearOldCache"
    /\ ret = NoRet
    /\ ret' = [fn |-> "clearOldCache", store |-> clearOldCache(call.store)]
    /\ UNCHANGED <<now, ls, quota, call, pageVars>>

ApplySafeSet ==
    /\ call.fn = "safeSet"
    /\ ret = NoRet
    /\ ret' = [fn |-> "safeSet"] @@ safeSet(call.store, call.key, call.value)
    /\ UNCHANGED <<now, ls, quota, call, pageVars>>

ApplyClearLRUItems ==
    /\ call.fn = "clearLRUItems"
    /\ ret = NoRet
    /\ ret' = [fn |-> "clearLRUItems"]
              @@ clearLRUItems(call.store, call.bytesNeeded, now)
    /\ UNCHANGED <<now, ls, quota, call, pageVars>>

NextFn == ApplyClearOldCache \/ ApplySafeSet \/ ApplyClearLRUItems

vars == <<now, ls, quota, call, ret, pageVars>>

SpecFn == InitFn /\ [][NextFn]_vars

----------------------------------------------------------------------------
(* Spec: a page component, the storage, the remote API and the user *)

Terms == {"A"}

Keywords == Terms \cup {"", " "}

\* what the API may answer to a request
Responses(req) ==
    {[type |-> "error"], [type |-> "malformed"]}
    \cup {[type |-> "json", results |-> <<>>, total_pages |-> 1,
           size |-> RespSize]}
    \cup {[type |-> "json",
           results |-> <<ApiResults(req.api, req.query, req.pageNum)>>,
           total_pages |-> t, size |-> RespSize] : t \in 1..MaxPage}

\* what other code of the origin may have left in localStorage
ForeignStores ==
    {<< >>, (<<"image", "1">> :> ImageData(1, ForeignSize))}

\* what an earlier visit of the TV page left: the list it searched, stored
\* when the clock read 0
EarlierSearch ==
    LET cachedKey == <<"searchCache", "tvShow", "a">>
    IN  (cachedKey :>
            AllResultsData(<<ApiResults("PAGINATED_TV_SHOWS", "", 1)>>))
        @@ (TimestampKey(cachedKey) :> Stamp(0))

Apply(w) ==
    /\ st' = w.st
    /\ ls' = w.ls
    /\ inflight' = w.inflight
    /\ positions' = w.positions
    /\ scrollY' = w.scrollY
    /\ timers' = w.timers
    /\ url' = w.url
    /\ ss' = w.ss
    /\ img' = w.img
    /\ log' = w.log

\* state was set, or the location changed, since the last commit
Dirty ==
    IF view.mounted
    THEN view.s # st \/ view.initialSearchTerm # RouteTerm(url)
    ELSE TRUE

Init ==
    /\ now = TickMs
    /\ quota = PageQuota
    /\ \/ /\ route = "movie"
          /\ ls \in ForeignStores
          /\ \E term \in Keywords, p \in {NoPageParam} \cup 2..MaxPage :
                /\ url = Location(term, p)
                /\ st = MovieState(RouteTerm(url), InitialPage(url))
       \/ /\ route = "tv"
          /\ ls \in ForeignStores \cup {EarlierSearch}
          /\ url = Location("tv", NoPageParam)
          /\ st = TvState
    /\ view = [mounted |-> FALSE]
    /\ inflight = {}
    /\ positions = << >>
    /\ scrollY = 0
    /\ timers = {}
    /\ log = << >>
    /\ events = 0
    /\ ss = << >>
    /\ img = NoImages
    /\ call = NoCall
    /\ ret = NoRet

\* the element of the route that <Routes> matches for a location: a static
\* segment ranks above the dynamic '/:searchTerm'
Match(location) ==
    CASE location.term = "tv" -> "TvShows"
      [] location.term = "movies" -> "Navigate"
      [] OTHER -> "Movie"

\* the requests of a component that unmounted: their callbacks still run, and
\* their state setters do nothing
Unmounted(requests) == {[fn |-> "unmounted", req |-> r] : r \in requests}

\* the location left the routes of the Movie page: the page unmounts (the
\* cleanup of its effects runs) and the matched element mounts; <Navigate
\* to="/" replace /> moves on to '/', where a new Movie mounts
LeaveMovie ==
    LET w == saveCleanup(World([op |-> "unmount", from |-> url,
                                searchTerm |-> st.searchTerm,
                                page |-> st.page]), view)
        to == IF Match(url) = "Navigate"
              THEN Location("", NoPageParam) ELSE url
    IN  /\ Apply([w EXCEPT !.inflight = Unmounted(@),
                           !.url = to,
                           !.st = IF Match(to) = "TvShows" THEN TvState
                                  ELSE MovieState(RouteTerm(to),
                                                  InitialPage(to))])
        /\ route' = IF Match(to) = "TvShows" THEN "tv" ELSE "movie"
        /\ view' = [mounted |-> FALSE]

Render ==
    /\ Dirty
    /\ IF route = "movie" /\ Match(url) # "Movie"
       THEN LeaveMovie
       ELSE /\ Apply(CASE route = "movie" ->
                          MovieEffects(World([op |-> "render"]), view, st,
                                       RouteTerm(url))
                     [] route = "tv" ->
                          TvEffects(World([op |-> "render"]), view, st)
                     [] route = "season" ->
                          SeasonEffects(World([op |-> "render"]), view, st)
                     [] OTHER ->
                          ItemEffects(World([op |-> "render"]), view, st,
                                      ItemProps))
            /\ view' = [mounted |-> TRUE, s |-> st,
                        initialSearchTerm |-> RouteTerm(url)]
            /\ route' = route
    /\ UNCHANGED <<now, quota, events, call, ret>>

\* a user event, a response or a timer reaches its handler once the pending
\* render of the page has committed
Committed(r) == route = r /\ ~Dirty

Handle(w) ==
    /\ Apply(w)
    /\ UNCHANGED <<now, quota, route, view, events, call, ret>>

\* a click or a key press: the user is slower than the 100 ms restore timer
UserEvent(w) ==
    /\ timers = {}
    /\ events < MaxEvents
    /\ events' = events + 1
    /\ Apply(w)
    /\ UNCHANGED <<now, quota, route, view, call, ret>>

Content == ~view.s.isLoading /\ view.s.error = "none"

ShowsLoadMore ==
    /\ view.s.isSearchMode
    /\ view.s.movies # <<>>
    /\ Cardinality(view.s.loadedPages) < view.s.totalPages

HandleInputChange ==
    /\ Committed("movie")
    /\ \E value \in Keywords :
          /\ value # view.s.keyword
          /\ UserEvent(Set(World([op |-> "handleInputChange"]), "keyword", value))

ExecuteSearch ==
    /\ Committed("movie")
    /\ Cardinality(inflight) < MaxInflight
    /\ UserEvent(executeSearch(World([op |-> "executeSearch"]), view.s))

HandlePageChange ==
    /\ Committed("movie")
    /\ Content /\ view.s.movies # <<>> /\ ~ShowsLoadMore
    /\ Cardinality(inflight) < MaxInflight
    /\ \E newPage \in 1..view.s.totalPages :
          UserEvent(handlePageChange(
              World([op |-> "handlePageChange", newPage |-> newPage]),
              view.s, newPage))

LoadMoreResults ==
    /\ Committed("movie")
    /\ Content /\ ShowsLoadMore /\ ~view.s.isLoadingMore
    /\ Cardinality(inflight) < MaxInflight
    /\ UserEvent(loadMoreResults(World([op |-> "loadMoreResults"]), view.s))

ClearSearch ==
    /\ Committed("movie")
    /\ Content /\ view.s.movies = <<>> /\ view.s.searchTerm # ""
    /\ Cardinality(inflight) < MaxInflight
    /\ UserEvent(clearSearch(World([op |-> "clearSearch"])))

TryAgain ==
    /\ Committed("movie")
    /\ view.s.error # "none" /\ ~view.s.isLoading
    /\ Cardinality(inflight) < MaxInflight
    /\ UserEvent(tryAgain(World([op |-> "tryAgain"]), view.s))

ClearCache ==
    /\ Committed("movie")
    /\ UserEvent(clearCache(World([op |-> "clearCache"])))

\* the promise of a request settles
Settle ==
    /\ Committed("movie")
    /\ \E req \in {r \in inflight : r.fn # "unmounted"} :
       \E response \in Responses(req) :
          LET w == [World([op |-> "settled", req |-> req,
                           response |-> response])
                        EXCEPT !.inflight = @ \ {req}]
          IN  Handle(IF req.fn = "fetchMovies"
                     THEN fetchMoviesSettled(w, req, response)
                     ELSE searchMoviesSettled(w, req, response))

RestoreTimeout ==
    /\ Committed("movie")
    /\ \E pageKey \in timers :
          Handle(restoreTimeout(
              [World([op |-> "timeout"]) EXCEPT !.timers = @ \ {pageKey}],
              pageKey))

\* the user scrolls the window
Scroll ==
    /\ Committed("movie")
    /\ events < MaxEvents
    /\ events' = events + 1
    /\ \E top \in 0..MaxScroll :
          /\ top # scrollY
          /\ scrollY' = top
    /\ log' = <<[op |-> "scroll"]>>
    /\ UNCHANGED <<now, ls, quota, route, st, view, url, inflight, positions,
                   timers, ss, img, call, ret>>

ContentTv ==
    ~view.s.isLoading /\ ~view.s.isSearching /\ view.s.error = "none"

HandleInputChangeTv ==
    /\ Committed("tv")
    /\ \E value \in Keywords :
          /\ value # view.s.keyword
          /\ UserEvent(Set(World([op |-> "handleInputChangeTv"]),
                           "keyword", value))

ExecuteSearchTv ==
    /\ Committed("tv")
    /\ Cardinality(inflight) < MaxInflight
    /\ UserEvent(executeSearchTv(World([op |-> "executeSearchTv"]), view.s))

HandlePageChangeTv ==
    /\ Committed("tv")
    /\ ContentTv /\ view.s.searchTerm = "" /\ view.s.tvShows # <<>>
    /\ Cardinality(inflight) < MaxInflight
    /\ \E newPage \in 1..view.s.totalPages :
          UserEvent(handlePageChangeTv(
              World([op |-> "handlePageChangeTv", newPage |-> newPage]),
              view.s, newPage))

\* shown when no show of the loaded list matches the search term
ClearSearchTv ==
    /\ Committed("tv")
    /\ ContentTv /\ view.s.searchTerm # ""
    /\ Cardinality(inflight) < MaxInflight
    /\ UserEvent(clearSearchTv(World([op |-> "clearSearchTv"])))

TryAgainTv ==
    /\ Committed("tv")
    /\ view.s.error # "none" /\ ~view.s.isLoading /\ ~view.s.isSearching
    /\ Cardinality(inflight) < MaxInflight
    /\ UserEvent(tryAgainTv(World([op |-> "tryAgainTv"]), view.s))

ClearCacheTv ==
    /\ Committed("tv")
    /\ UserEvent(clearCache(World([op |-> "clearCacheTv"])))

SettleTv ==
    /\ Committed("tv")
    /\ \E req \in {r \in inflight : r.fn # "unmounted"} :
       \E response \in Responses(req) :
          LET w == [World([op |-> "settled", req |-> req,
                           response |-> response])
                        EXCEPT !.inflight = @ \ {req}]
          IN  Handle(IF req.fn = "fetchTvShows"
                     THEN fetchTvShowsSettled(w, req, response)
                     ELSE fetchAllTvShowsSettled(w, req, response))

Tick ==
    /\ route \in {"movie", "tv"} /\ ~Dirty
    /\ timers = {}
    /\ now < TickMs * (MaxTicks + 1)
    /\ now' = now + TickMs
    /\ log' = <<[op |-> "tick"]>>
    /\ UNCHANGED <<ls, quota, route, st, view, url, inflight, positions,
                   scrollY, timers, events, ss, img, call, ret>>

Next ==
    \/ Render
    \/ HandleInputChange
    \/ ExecuteSearch
    \/ HandlePageChange
    \/ LoadMoreResults
    \/ ClearSearch
    \/ TryAgain
    \/ ClearCache
    \/ Settle
    \/ RestoreTimeout
    \/ Scroll
    \/ HandleInputChangeTv
    \/ ExecuteSearchTv
    \/ HandlePageChangeTv
    \/ ClearSearchTv
    \/ TryAgainTv
    \/ ClearCacheTv
    \/ SettleTv
    \/ Tick

Spec == Init /\ [][Next]_vars

----------------------------------------------------------------------------
(* SpecUrl: the Movie page under the router, searched for any term, the    *)
(* names of the routes included                                            *)

RouteNames == {"tv", "movies"}

\* the URLs that the router loads into the Movie page
InitUrl ==
    /\ now = TickMs
    /\ quota = PageQuota
    /\ route = "movie"
    /\ ls = << >>
    /\ \E term \in Keywords, p \in {NoPageParam} \cup 2..MaxPage :
          /\ url = Location(term, p)
          /\ st = MovieState(RouteTerm(url), InitialPage(url))
    /\ view = [mounted |-> FALSE]
    /\ inflight = {}
    /\ positions = << >>
    /\ scrollY = 0
    /\ timers = {}
    /\ log = << >>
    /\ events = 0
    /\ ss = << >>
    /\ img = NoImages
    /\ call = NoCall
    /\ ret = NoRet

\* the user types a term into the search box
HandleInputChangeUrl ==
    /\ Committed("movie")
    /\ \E value \in Keywords \cup RouteNames :
          /\ value # view.s.keyword
          /\ UserEvent(Set(World([op |-> "handleInputChange"]), "keyword", value))

\* what a callback of an unmounted component leaves: the storage it wrote
StorageOf(w, r) ==
    /\ ls' = w.ls
    /\ log' = w.log
    /\ inflight' = inflight \ {r}
    /\ UNCHANGED <<now, quota, route, st, view, url, positions, scrollY,
                   timers, events, ss, img, call, ret>>

\* the promise of a request of the unmounted Movie page settles: the cache
\* is written, the state setters are no-ops
SettleUnmounted ==
    /\ route \in {"movie", "tv"} /\ ~Dirty
    /\ \E r \in {x \in inflight : x.fn = "unmounted"} :
       \E response \in Responses(r.req) :
          LET w == [World([op |-> "settledUnmounted", req |-> r.req,
                           response |-> response])
                        EXCEPT !.st = MovieState(r.req.query, r.req.pageNum)]
          IN  StorageOf(IF r.req.fn = "fetchMovies"
                        THEN fetchMoviesSettled(w, r.req, response)
                        ELSE searchMoviesSettled(w, r.req, response), r)

NextUrl ==
    \/ Render
    \/ HandleInputChangeUrl
    \/ ExecuteSearch
    \/ HandlePageChange
    \/ LoadMoreResults
    \/ ClearSearch
    \/ Settle
    \/ SettleUnmounted
    \/ RestoreTimeout
    \/ SettleTv

SpecUrl == InitUrl /\ [][NextUrl]_vars


----------------------------------------------------------------------------
(* SpecGrow: the Movie page browsed while the listing of the API grows *)

\* the answer to a request once the listing has grown: the same page, longer
LargeResponses(req) ==
    {[type |-> "json",
      results |-> <<ApiResults(req.api, req.query, req.pageNum)>>,
      total_pages |-> MaxPage, size |-> LargeSize]}

SettleLarge ==
    /\ Committed("movie")
    /\ \E req \in {r \in inflight : r.fn # "unmounted"} :
       \E response \in LargeResponses(req) :
          LET w == [World([op |-> "settled", req |-> req,
                           response |-> response])
                        EXCEPT !.inflight = @ \ {req}]
          IN  Handle(IF req.fn = "fetchMovies"
                     THEN fetchMoviesSettled(w, req, response)
                     ELSE searchMoviesSettled(w, req, response))

NextGrow ==
    \/ Render
    \/ HandlePageChange
    \/ TryAgain
    \/ Settle
    \/ SettleLarge
    \/ RestoreTimeout
    \/ Tick

SpecGrow == InitUrl /\ [][NextGrow]_vars

----------------------------------------------------------------------------
(* SpecImg: a list item, its poster, the two storages and the image server *)

\* the clock advances in steps of three and a half days
ImgTickMs == 84 * 60 * 60 * 1000

ImgQuota == 5 * 1024 * 1024

BlobSizes == {SmallBlob, MaxCachedBlob, MaxCachedBlob + 1}

\* what an earlier visit left: the poster stored when the clock read ImgTickMs
EarlierImage ==
    LET imageKey == <<"image", ToStr(ItemProps.id)>>
        image == safeSetItem(<< >>, << >>, imageKey,
                             DataUrl(ItemProps, SmallBlob), ImgTickMs)
    IN  safeSetItem(image.ls, << >>, TimestampKey(imageKey),
                    JsNumber(ImgTickMs), ImgTickMs).ls

\* a storage that other data fills up to Headroom characters
FilledBy(key) ==
    key :> [kind |-> "json", value |-> JsString(<<"filler">>, 0),
            size |-> ImgQuota - Headroom - KeyLength(key)]

ImgStores ==
    {<< >>, EarlierImage, FilledBy(<<"image", "2">>),
     FilledBy(<<"user", "settings">>)}

InitImg ==
    /\ now = 2 * ImgTickMs
    /\ quota = ImgQuota
    /\ ls \in ImgStores
    /\ ss = << >>
    /\ img = NoImages
    /\ route = "item"
    /\ st = ItemState
    /\ view = [mounted |-> FALSE]
    /\ url = Location("", NoPageParam)
    /\ inflight = {}
    /\ positions = << >>
    /\ scrollY = 0
    /\ timers = {}
    /\ log = << >>
    /\ events = 0
    /\ call = NoCall
    /\ ret = NoRet

\* the IntersectionObserver callback: the item enters or leaves the viewport
Intersect ==
    /\ Committed("item")
    /\ \E isIntersecting \in BOOLEAN :
          /\ isIntersecting # view.s.isIntersecting
          /\ UserEvent(Set(World([op |-> "intersect"]),
                           "isIntersecting", isIntersecting))

\* what the image server may answer
ImageResponses ==
    {[type |-> "error"]} \cup {[type |-> "blob", size |-> z] : z \in BlobSizes}

Settled(req, response) ==
    [World([op |-> "settled", req |-> req, response |-> response])
        EXCEPT !.inflight = @ \ {req}]

ImageSettled ==
    /\ Committed("item")
    /\ \E req \in inflight : \E response \in ImageResponses :
          /\ req.fn = "image"
          /\ Handle(imageSettled(Settled(req, response), req, response))

ReaderLoadEnd ==
    /\ Committed("item")
    /\ \E req \in inflight :
          /\ req.fn = "reader"
          /\ Handle(readerLoadEnd(Settled(req, [type |-> "loadend"]), req))

ThumbnailSettled ==
    /\ Committed("item")
    /\ \E req \in inflight : \E type \in {"load", "error"} :
          /\ req.fn = "thumbnail"
          /\ Handle(IF type = "load"
                    THEN thumbnailLoaded(Settled(req, [type |-> type]), req)
                    ELSE handleImageError(Settled(req, [type |-> type])))

PreloadSettled ==
    /\ Committed("item")
    /\ \E req \in inflight : \E type \in {"load", "error"} :
          /\ req.fn = "preload"
          /\ Handle(preloadSettled(Settled(req, [type |-> type])))

\* the user reloads the page: the module state is new, the storages stay
Reload ==
    /\ Committed("item")
    /\ events < MaxEvents
    /\ events' = events + 1
    /\ st' = ItemState
    /\ view' = [mounted |-> FALSE]
    /\ img' = NoImages
    /\ inflight' = {}
    /\ log' = <<[op |-> "reload"]>>
    /\ UNCHANGED <<now, ls, quota, route, url, positions, scrollY, timers, ss,
                   call, ret>>

TickImg ==
    /\ Committed("item")
    /\ now < ImgTickMs * (MaxTicks + 2)
    /\ now' = now + ImgTickMs
    /\ log' = <<[op |-> "tick"]>>
    /\ UNCHANGED <<ls, quota, route, st, view, url, inflight, positions,
                   scrollY, timers, events, ss, img, call, ret>>

NextImg ==
    \/ Render
    \/ Intersect
    \/ ImageSettled
    \/ ReaderLoadEnd
    \/ ThumbnailSettled
    \/ PreloadSettled
    \/ Reload
    \/ TickImg

SpecImg == InitImg /\ [][NextImg]_vars

----------------------------------------------------------------------------
(* SpecQueue: the preload queue under the list items of a page.  The queue  *)
(* is module state that all items share; the hook state of the items is    *)
(* not kept.                                                               *)

\* the props of the list items on the page
PageItems ==
    {ItemProps, [id |-> 2, posterPath |-> "/second.jpg"],
     [id |-> 3, posterPath |-> "/third.jpg"]}

InitQueue ==
    /\ now = 2 * ImgTickMs
    /\ quota = ImgQuota
    /\ ls = << >>
    /\ ss = << >>
    /\ img = NoImages
    /\ route = "list"
    /\ st = ItemState
    /\ view = [mounted |-> FALSE]
    /\ url = Location("", NoPageParam)
    /\ inflight = {}
    /\ positions = << >>
    /\ scrollY = 0
    /\ timers = {}
    /\ log = << >>
    /\ events = 0
    /\ call = NoCall
    /\ ret = NoRet

\* what an effect of some item leaves outside the item
Shared(w) == Apply([w EXCEPT !.st = st])

\* an item of the page is visible and its image load effect runs
LoadImage ==
    /\ route = "list"
    /\ events < MaxEvents
    /\ events' = events + 1
    /\ \E props \in PageItems : \E thumbnailSrc \in {JsNull, ThumbnailUrl(props)} :
          Shared(loadImageEffect(
              World([op |-> "loadImage", props |-> props]),
              [ItemState EXCEPT !.isIntersecting = TRUE,
                                !.thumbnailSrc = thumbnailSrc], props))
    /\ UNCHANGED <<now, quota, route, view, call, ret>>

\* img.onload or img.onerror of the preload under way
PreloadFired ==
    /\ route = "list"
    /\ \E req \in inflight : \E type \in {"load", "error"} :
          /\ req.fn = "preload"
          /\ Handle(preloadSettled(Settled(req, [type |-> type])))

NextQueue ==
    \/ LoadImage
    \/ PreloadFired

SpecQueue == InitQueue /\ [][NextQueue]_vars

\* every image that started loading fires onload or onerror
SpecQueueFair == SpecQueue /\ WF_vars(PreloadFired)

----------------------------------------------------------------------------
(* SpecSeason: the episodes of a season, loaded from a rate-limited API *)

SeasonResponses ==
    {[type |-> "429"], [type |-> "401"], [type |-> "error"],
     [type |-> "json", size |-> RespSize]}

InitSeason ==
    /\ now = TickMs
    /\ quota = PageQuota
    /\ route = "season"
    /\ ls \in ForeignStores
    /\ st = SeasonState
    /\ url = Location("tv", NoPageParam)
    /\ view = [mounted |-> FALSE]
    /\ inflight = {}
    /\ positions = << >>
    /\ scrollY = 0
    /\ timers = {}
    /\ log = << >>
    /\ events = 0
    /\ ss = << >>
    /\ img = NoImages
    /\ call = NoCall
    /\ ret = NoRet

SeasonSettled ==
    /\ Committed("season")
    /\ \E req \in inflight : \E response \in SeasonResponses :
          Handle(seasonSettled(Settled(req, response), req, response))

\* a retry timer fires
RetryTimeout ==
    /\ Committed("season")
    /\ st.retryCount < MaxRetryCount
    /\ Cardinality(inflight) < MaxInflight
    /\ \E timer \in timers :
          Handle(retryTimeout(
              [World([op |-> "retryTimeout", timer |-> timer])
                  EXCEPT !.timers = @ \ {timer}], timer))

\* the user presses Try Again, shown with an error that is no retry notice
HandleRetry ==
    /\ Committed("season")
    /\ view.s.error # NoError /\ ~IncludesRetryingIn(view.s.error)
    /\ events < MaxEvents
    /\ Cardinality(inflight) < MaxInflight
    /\ events' = events + 1
    /\ Apply(handleRetry(World([op |-> "handleRetry"]), view.s))
    /\ UNCHANGED <<now, quota, route, view, call, ret>>

NextSeason ==
    \/ Render
    \/ SeasonSettled
    \/ RetryTimeout
    \/ HandleRetry

SpecSeason == InitSeason /\ [][NextSeason]_vars

----------------------------------------------------------------------------
(* SpecRt: safeSetItem(key, value) and then safeGetItem(key), on drawn      *)
(* storages                                                                *)

\* JSON.stringify(n).length of a non-negative integer
RECURSIVE DecimalLength(_)
DecimalLength(n) == IF n < 10 THEN 1 ELSE 1 + DecimalLength(n \div 10)

\* a number that is no time: a page, a count
JsInteger(n) == [type |-> "number", n |-> n, length |-> DecimalLength(n)]

\* a storage with no room left: other data fills it to the quota
FullOf(key) ==
    key :> [kind |-> "json", value |-> JsString(<<"filler">>, 0),
            size |-> ImgQuota - KeyLength(key)]

\* localStorage before the call: empty, holding the poster, full of an
\* evictable item, full of a protected item (with and without room for the
\* probe of isStorageAvailable)
RtLocalStores ==
    ImgStores \cup {FullOf(<<"user", "settings">>)}

RtSessionStores == {<< >>, FullOf(<<"image", "2">>)}

RtKeys == {<< >>, <<"image", "1">>}

RtValues ==
    {DataUrl(ItemProps, SmallBlob), DataUrl(ItemProps, MaxCachedBlob),
     JsNumber(2 * ImgTickMs), JsInteger(2), JsInteger(42)}

InitRt ==
    /\ now = 2 * ImgTickMs
    /\ quota = ImgQuota
    /\ ls \in RtLocalStores
    /\ ss \in RtSessionStores
    /\ call \in [fn : {"safeSetItem"}, key : RtKeys, value : RtValues]
    /\ ret = NoRet
    /\ img = NoImages
    /\ route = "none"
    /\ st = [mounted |-> FALSE]
    /\ view = [mounted |-> FALSE]
    /\ url = Location("", NoPageParam)
    /\ inflight = {}
    /\ positions = << >>
    /\ scrollY = 0
    /\ timers = {}
    /\ log = << >>
    /\ events = 0

\* safeSetItem(call.key, call.value)
CallSafeSetItem ==
    /\ call.fn = "safeSetItem"
    /\ ret = NoRet
    /\ LET r == safeSetItem(ls, ss, call.key, call.value, now)
       IN  /\ ls' = r.ls
           /\ ss' = r.ss
           /\ ret' = [fn |-> "safeSetItem", ok |-> r.ok, path |-> r.path]
    /\ UNCHANGED <<now, quota, call, route, st, view, url, inflight,
                   positions, scrollY, timers, log, events, img>>

\* safeGetItem(call.key), right after the write returned
CallSafeGetItem ==
    /\ ret.fn = "safeSetItem"
    /\ LET r == safeGetItem(ls, call.key, now)
       IN  /\ ls' = r.ls
           /\ ret' = [fn |-> "safeGetItem", ok |-> ret.ok, path |-> ret.path,
                      value |-> r.value]
    /\ UNCHANGED <<now, quota, call, route, st, view, url, inflight,
                   positions, scrollY, timers, log, events, ss, img>>

NextRt == CallSafeSetItem \/ CallSafeGetItem

SpecRt == InitRt /\ [][NextRt]_vars

----------------------------------------------------------------------------
(* SpecLru: calls of safeSetItem and safeGetItem on a storage that holds    *)
(* posters stored earlier, while the clock advances                        *)

\* the key and the props of the i-th poster
LruKey(i) == <<"image", ToStr(i)>>

LruProps(i) == [id |-> i, posterPath |-> "/poster.jpg"]

\* localStorage after safeSetItem stored the i-th poster at tick i (blob 0:
\* it was never stored)
WithPoster(store, i, blob) ==
    IF blob = 0 THEN store
    ELSE LET key == LruKey(i)
         IN  Put(Put(store, key, Serialized(DataUrl(LruProps(i), blob), TRUE)),
                 MetaKey(key), Meta(i * ImgTickMs))

\* a page of results that pages/Movie.jsx wrote with localStorage.setItem
WithPage(store, direct) ==
    IF direct
    THEN Put(store, <<"cachedMovies", "1">>, PageData(<<"page">>, 1, DirectSize))
    ELSE store

\* the user settings fill the storage up to Headroom characters
FilledUp(store, full) ==
    IF full
    THEN Put(store, <<"user", "settings">>,
             [kind |-> "json", value |-> JsString(<<"filler">>, 0),
              size |-> ImgQuota - Headroom - Used(store)
                           - KeyLength(<<"user", "settings">>)])
    ELSE store

LruBlobs == {0, SmallBlob, MidBlob, MaxCachedBlob}

LruStores ==
    {FilledUp(WithPage(WithPoster(WithPoster(WithPoster(<< >>, 1, b[1]),
                                             2, b[2]), 3, b[3]), direct), full) :
        b \in [1..3 -> LruBlobs], direct \in BOOLEAN, full \in BOOLEAN}

InitLru ==
    /\ now = 4 * ImgTickMs
    /\ quota = ImgQuota
    /\ ls \in LruStores
    /\ ss = << >>
    /\ call = NoCall
    /\ ret = NoRet
    /\ img = NoImages
    /\ route = "none"
    /\ st = [mounted |-> FALSE]
    /\ view = [mounted |-> FALSE]
    /\ url = Location("", NoPageParam)
    /\ inflight = {}
    /\ positions = << >>
    /\ scrollY = 0
    /\ timers = {}
    /\ log = << >>
    /\ events = 0

\* safeSetItem(key, value); the log keeps every call made so far
LruSet ==
    /\ Len(log) < MaxCalls
    /\ \E i \in 1..3 : \E blob \in {SmallBlob, MaxCachedBlob} :
          LET r == safeSetItem(ls, ss, LruKey(i), DataUrl(LruProps(i), blob), now)
          IN  /\ ls' = r.ls
              /\ ss' = r.ss
              /\ call' = [fn |-> "safeSetItem", key |-> LruKey(i), before |-> ls]
              /\ ret' = [fn |-> "safeSetItem", ok |-> r.ok, path |-> r.path]
              /\ log' = Append(log, [op |-> "safeSetItem", key |-> LruKey(i),
                                     at |-> now, ok |-> r.ok])
    /\ UNCHANGED <<now, quota, route, st, view, url, inflight, positions,
                   scrollY, timers, events, img>>

\* safeGetItem(key)
LruGet ==
    /\ Len(log) < MaxCalls
    /\ \E i \in 1..3 :
          LET r == safeGetItem(ls, LruKey(i), now)
          IN  /\ ls' = r.ls
              /\ call' = [fn |-> "safeGetItem", key |-> LruKey(i), before |-> ls]
              /\ ret' = [fn |-> "safeGetItem", ok |-> r.value # JsNull,
                         path |-> "local"]
              /\ log' = Append(log, [op |-> "safeGetItem", key |-> LruKey(i),
                                     at |-> now, ok |-> r.value # JsNull])
    /\ UNCHANGED <<now, quota, route, st, view, url, inflight, positions,
                   scrollY, timers, events, ss, img>>

TickLru ==
    /\ now < (4 + MaxTicks) * ImgTickMs
    /\ now' = now + ImgTickMs
    /\ UNCHANGED <<ls, quota, call, ret, route, st, view, url, inflight,
                   positions, scrollY, timers, log, events, ss, img>>

NextLru == LruSet \/ LruGet \/ TickLru

SpecLru == InitLru /\ [][NextLru]_vars

----------------------------------------------------------------------------
(* Claims about the storage functions (SpecFn) *)

\* the cache entries clearOldCache may evict: a data key with the cache
\* prefix that has a timestamp sibling
EligibleEntries(store) ==
    {k \in DOMAIN store :
        /\ k[1] \in {"cachedMovies", "cachedTvShows", "searchCache"}
        /\ k[Len(k)] # "timestamp"
        /\ (k \o <<"timestamp">>) \in DOMAIN store}

RecordedTime(store, k) == store[k \o <<"timestamp">>].time

EvictedEntries == EligibleEntries(call.store) \ DOMAIN ret.store

KeptEntries == EligibleEntries(call.store) \cap DOMAIN ret.store

EvictedAreOldest ==
    \A r \in EvictedEntries : \A k \in KeptEntries :
        RecordedTime(call.store, r) <= RecordedTime(call.store, k)

\* C2: a quota error on the first write makes safeSet run clearOldCache once,
\* then retry the write once on the store the eviction left; it returns
\* whether that retry succeeded and never throws; without a quota error it
\* writes once and evicts nothing.
C2_SafeSetRetriesOnce ==
    ret.fn = "safeSet" =>
        LET failed == Used(Put(call.store, call.key, call.value)) > quota
            cleared == clearOldCache(call.store)
            fits == Used(Put(cleared, call.key, call.value)) <= quota
            ops == [i \in 1..Len(ret.calls) |-> ret.calls[i].op]
        IN  /\ ~ret.threw
            /\ ~failed => /\ ops = <<"setItem">>
                          /\ ret.ok
                          /\ ret.store = Put(call.store, call.key, call.value)
            /\ failed => /\ ops = <<"setItem", "clearOldCache", "setItem">>
                         /\ ret.ok = fits
                         /\ ret.store = IF fits
                                        THEN Put(cleared, call.key, call.value)
                                        ELSE cleared

\* C2 witness: the first write met the quota, the eviction removed entries,
\* and the retry failed too: safeSet returned false
C2_Witness ==
    /\ ret.fn = "safeSet"
    /\ Len(ret.calls) = 3
    /\ ~ret.ok
    /\ DOMAIN ret.store # DOMAIN call.store

\* C3 as stated: with n >= 1 eligible entries the eviction removes the oldest
\* ones and between 30% and 40% of n of them
C3_Original ==
    (ret.fn = "clearOldCache" /\ Cardinality(EligibleEntries(call.store)) >= 1) =>
        LET n == Cardinality(EligibleEntries(call.store))
            r == Cardinality(EvictedEntries)
        IN  /\ EvictedAreOldest
            /\ 10 * r >= 3 * n
            /\ 10 * r <= 4 * n

\* C3 amended: with n >= 1 eligible entries the eviction removes the oldest
\* ones, at least 30% of n and fewer than 30% of n plus one (so more than
\* 40% of n when n is 1, 2, 4 or 7)
C3_EvictsOldestThirtyPercent ==
    (ret.fn = "clearOldCache" /\ Cardinality(EligibleEntries(call.store)) >= 1) =>
        LET n == Cardinality(EligibleEntries(call.store))
            r == Cardinality(EvictedEntries)
        IN  /\ EvictedAreOldest
            /\ 10 * r >= 3 * n
            /\ 10 * r < 3 * n + 10

\* C3 witness: five eligible entries with different timestamps, two evicted
C3_Witness ==
    /\ ret.fn = "clearOldCache"
    /\ Cardinality(EligibleEntries(call.store)) = 5
    /\ Cardinality(EvictedEntries) = 2
    /\ \E r \in EvictedEntries : \E k \in KeptEntries :
           RecordedTime(call.store, r) < RecordedTime(call.store, k)

\* the items clearLRUItems may delete, and when each was last accessed
UnprotectedItems(store) ==
    {k \in DOMAIN store :
        /\ k[1] # "__meta"
        /\ ~(\E i \in 1..(Len(k) - 1) :
                <<k[i], k[i + 1]>> \in {<<"user", "settings">>, <<"auth", "token">>})}

AccessTime(store, k) ==
    IF (<<"__meta">> \o k) \in DOMAIN store
    THEN store[<<"__meta">> \o k].lastAccessed ELSE now

RECURSIVE ItemBytes(_, _)
ItemBytes(store, keys) ==
    IF keys = {} THEN 0
    ELSE LET k == CHOOSE x \in keys : TRUE
         IN  store[k].size + KeyLength(k) + ItemBytes(store, keys \ {k})

RemovedItems == UnprotectedItems(call.store) \ DOMAIN ret.store

\* C10: clearLRUItems deletes unprotected items in ascending order of last
\* access: nothing is deleted while a less recently accessed unprotected item
\* is kept, and the deleted items are the shortest such prefix whose sizes
\* add up to bytesNeeded, or every unprotected item when they add up to less.
C10_EvictsLeastRecentlyUsed ==
    ret.fn = "clearLRUItems" =>
        LET all == UnprotectedItems(call.store)
            gone == RemovedItems
        IN  /\ \A r \in gone : \A k \in all \ gone :
                   AccessTime(call.store, r) <= AccessTime(call.store, k)
            /\ ItemBytes(call.store, gone) >= call.bytesNeeded \/ gone = all
            /\ gone # {} =>
                   \E r \in gone :
                       /\ \A x \in gone :
                              AccessTime(call.store, x) <= AccessTime(call.store, r)
                       /\ ItemBytes(call.store, gone \ {r}) < call.bytesNeeded
            /\ gone = {} => all = {}
            /\ ret.freedBytes = ItemBytes(call.store, gone)

\* C10 witness: two items deleted to reach bytesNeeded, a more recently
\* accessed one kept
C10_Witness ==
    /\ ret.fn = "clearLRUItems"
    /\ Cardinality(RemovedItems) = 2
    /\ ItemBytes(call.store, RemovedItems) >= call.bytesNeeded
    /\ \E k \in UnprotectedItems(call.store) \ RemovedItems :
           \A r \in RemovedItems :
               AccessTime(call.store, r) < AccessTime(call.store, k)

(* Spec: the steps of the page *)

LogHas(op) == \E i \in 1..Len(log) : log[i].op = op

Step(op) == log # <<>> /\ log[1].op = op

\* the step was the arrival of a well-formed, non-empty response to a request
\* of fetchMovies or searchMovies
SettledWellFormed ==
    /\ Step("settled")
    /\ log[1].req.fn \in {"fetchMovies", "searchMovies"}
    /\ log[1].response.type = "json"
    /\ log[1].response.results # <<>>

\* the first write of the step threw, and so did its retry
PersistFailedTwice ==
    /\ Len(log) >= 4
    /\ log[2].op = "setItem" /\ log[2].threw
    /\ log[3].op = "clearOldCache"
    /\ log[4].op = "setItem" /\ log[4].threw

\* C4: when a well-formed non-empty response arrives, the displayed list
\* becomes the response's results (after the list already shown, for a load
\* of more results), the loading flag of the request ends and the step sets no
\* error, whether the cache writes succeed, fail once or fail on the retry too.
C4_ResponseShownWhateverPersist ==
    SettledWellFormed =>
        LET req == log[1].req
            results == log[1].response.results
        IN  /\ st.movies = IF req.append THEN view.s.movies \o results
                           ELSE results
            /\ IF req.append THEN ~st.isLoadingMore ELSE ~st.isLoading
            /\ st.error = view.s.error

\* a well-formed response arrived with no error shown, and its data could not
\* be stored even after the eviction
C4_Witness ==
    /\ SettledWellFormed
    /\ PersistFailedTwice
    /\ view.s.error = "none"
    /\ st.movies = log[1].response.results

KeyChangedRender ==
    /\ Step("render")
    /\ Len(log) >= 2 /\ log[2].op = "savePosition"

\* C7 (as stated): after a change to key K the scroll offset for K is applied
\* only once K's load has completed successfully, never while K still loads
\* and never after a failed load.
C7_RestoreOnlyAfterLoad ==
    (KeyChangedRender /\ LogHas("scrollTo")) =>
        ~st.isLoading /\ st.error = "none"


\* the calls of the result-cache readers that the step made
CacheReads ==
    {i \in 1..Len(log) :
        log[i].op \in {"fetchMovies", "searchMovies", "fetchAllTvShows"}}

\* the entry and its timestamp are present, the entry parses, and it is
\* younger than the reader's window (and the aggregated search has a term)
FreshFor(read) ==
    LET window == IF read.op = "fetchAllTvShows" THEN 60 * 60 * 1000
                  ELSE 30 * 60 * 1000
        sibling == read.key \o <<"timestamp">>
    IN  /\ read.key \in DOMAIN ls /\ sibling \in DOMAIN ls
        /\ ls[read.key].kind = "json"
        /\ ls[sibling].kind = "stamp"
        /\ now - ls[sibling].time < window
        /\ read.op = "fetchAllTvShows" => read.query # ""

\* the step issued a network request on behalf of the reader
Requested(read) ==
    \E j \in 1..Len(log) : log[j].op = "fetch" /\ log[j].req.fn = read.op

\* the stored response is what the page holds, and its loading has ended
ShowsStored(read) ==
    LET stored == ls[read.key].results
    IN  CASE read.op = "fetchMovies" ->
                st.movies = stored /\ ~st.isLoading
          [] read.op = "searchMovies" /\ read.append ->
                st.movies = view.s.movies \o stored /\ ~st.isLoadingMore
          [] read.op = "searchMovies" ->
                st.movies = stored /\ ~st.isLoading
          [] OTHER ->
                st.allTvShows = stored /\ ~st.isSearching

\* C1 (as stated): a reader shows the stored response without a request
\* exactly when the entry is fresh, and in every other case calls the API.
C1_Original ==
    \A i \in CacheReads :
        /\ log[i].hit <=> FreshFor(log[i])
        /\ FreshFor(log[i]) => ShowsStored(log[i]) /\ ~Requested(log[i])
        /\ ~FreshFor(log[i]) => Requested(log[i])

\* C1: fetchMovies, searchMovies with a query that is not blank, and
\* fetchAllTvShows show the stored response without any network request
\* exactly when the entry and its timestamp are present, the entry parses and
\* now - timestamp is below the window (30 minutes; 60 minutes and a non-empty
\* term for fetchAllTvShows); otherwise they call the API.  searchMovies with a
\* blank query does neither.
C1_FreshEntryIsAHit ==
    \A i \in CacheReads :
        LET blank == log[i].op = "searchMovies" /\ log[i].query \in {"", " "}
        IN  /\ log[i].hit <=> (FreshFor(log[i]) /\ ~blank)
            /\ (FreshFor(log[i]) /\ ~blank) =>
                    ShowsStored(log[i]) /\ ~Requested(log[i])
            /\ (~FreshFor(log[i]) /\ ~blank) => Requested(log[i])
            /\ blank => ~Requested(log[i]) /\ st = view.s

\* an entry stored 30 minutes ago is shown by fetchAllTvShows without a request
C1_Witness ==
    \E i \in CacheReads :
        /\ log[i].op = "fetchAllTvShows" /\ log[i].hit
        /\ now - ls[log[i].key \o <<"timestamp">>].time = 30 * 60 * 1000
        /\ st.allTvShows # <<>>
        /\ ~Requested(log[i])


\* {kind}_{query-or-page}: the key the claim gives the response of a request
CacheKeyOf(req) ==
    CASE req.fn = "fetchMovies" -> <<"cachedMovies", ToStr(req.pageNum)>>
      [] req.fn = "searchMovies" ->
            <<"searchCache", "movie", ToLowerCase(req.query), ToStr(req.pageNum)>>
      [] req.fn = "fetchTvShows" -> <<"cachedTvShows", ToStr(req.pageNum)>>
      [] OTHER -> <<"searchCache", "tvShow", ToLowerCase(req.searchTerm)>>

\* C5 (as stated): every result-cache write stores the response under a key K
\* of the form {kind}_{query-or-page} and its write time under K_timestamp,
\* every hit has checked that sibling, and so two pages or two queries never
\* share a storage entry.
C5_KeyPerPageWithSibling ==
    /\ Step("settled") =>
          \A i \in 1..Len(log) :
              log[i].op = "setItem" =>
                  log[i].key \in {CacheKeyOf(log[1].req),
                                  CacheKeyOf(log[1].req) \o <<"timestamp">>}
    /\ \A i \in 1..Len(log) :
          (log[i].op \in {"fetchMovies", "searchMovies", "fetchTvShows",
                          "fetchAllTvShows"} /\ log[i].hit) =>
              (log[i].key \o <<"timestamp">>) \in DOMAIN ls


(* SpecImg: the poster cache *)

\* the longest data URL a blob of 300 * 1024 bytes encodes to
LongestCachedUrl == 23 + 4 * ((300 * 1024 + 2) \div 3)

IsPoster(value) == value.type = "string" /\ value.text[1] = "data"

\* the posters a storage holds
StoredPosters(store) ==
    {store[k].value : k \in {x \in DOMAIN store :
        store[x].kind \in {"json", "compressed"} /\ IsPoster(store[x].value)}}

MemoryPosters ==
    {img.memoryImageCache[k] : k \in DOMAIN img.memoryImageCache}

\* C8: a poster whose blob exceeds 300 * 1024 bytes reaches neither storage
\* nor the memory cache nor the reader; a blob within the limit is encoded and
\* stored under image_{id} and then image_{id}_timestamp.
C8_OversizedPosterNeverCached ==
    /\ \A poster \in StoredPosters(ls) \cup StoredPosters(ss) \cup MemoryPosters :
          poster.length <= LongestCachedUrl
    /\ \A req \in inflight : req.fn = "reader" => req.size <= 300 * 1024
    /\ (Step("settled") /\ log[1].req.fn = "image"
          /\ log[1].response.type = "blob"
          /\ log[1].response.size > 300 * 1024) => Len(log) = 1
    /\ (Step("settled") /\ log[1].req.fn = "reader") =>
          /\ Len(log) = 4
          /\ log[2].op = "memoryImageCache.set"
          /\ log[3].op = "safeSetItem"
          /\ log[3].key = <<"image", ToStr(log[1].req.props.id)>>
          /\ log[4].op = "safeSetItem"
          /\ log[4].key = log[3].key \o <<"timestamp">>

\* the server answered with a poster of more than 300 * 1024 bytes
C8_Witness ==
    /\ Step("settled") /\ log[1].req.fn = "image"
    /\ log[1].response.type = "blob"
    /\ log[1].response.size > 300 * 1024
    /\ StoredPosters(ls) = {} /\ MemoryPosters = {}

\* the stored entry read by the step: image and timestamp present, and its age
EntryAge ==
    LET i == CHOOSE i \in 1..Len(log) : log[i].op = "safeGetItem"
    IN  IF log[i].image.type = "string" /\ log[i].timestamp.type = "number"
        THEN now - log[i].timestamp.n ELSE -1

\* C9: a stored poster is used as a hit only if the image and its timestamp
\* are both in storage and now - timestamp < 7 days; when the entry read is
\* 7 days old or older, the image key and the timestamp key are removed from
\* storage before the request for the image is issued.
C9_StoredPosterHitOnlyWhenFresh ==
    LET imageKey == <<"image", ToStr(ItemProps.id)>>
        timestampKey == imageKey \o <<"timestamp">>
        sevenDays == 7 * 24 * 60 * 60 * 1000
        At(op) == CHOOSE i \in 1..Len(log) : log[i].op = op
    IN  /\ LogHas("useCached") =>
              /\ imageKey \in DOMAIN ls /\ timestampKey \in DOMAIN ls
              /\ now - ls[timestampKey].value.n < sevenDays
              /\ st.imgSrc = ls[imageKey].value
              /\ ~LogHas("fetch")
        /\ (LogHas("safeGetItem") /\ EntryAge >= sevenDays) =>
              /\ ~LogHas("useCached")
              /\ imageKey \notin DOMAIN ls /\ timestampKey \notin DOMAIN ls
              /\ \E i, j \in 1..Len(log) :
                    /\ log[i].op = "safeRemoveItem" /\ log[i].key = imageKey
                    /\ log[j].op = "safeRemoveItem" /\ log[j].key = timestampKey
                    /\ i < At("fetch") /\ j < At("fetch")
              /\ \E req \in inflight : req.fn = "image"

\* an entry exactly 7 days old was read, removed and refetched
C9_Witness ==
    /\ LogHas("safeGetItem") /\ EntryAge = 7 * 24 * 60 * 60 * 1000
    /\ LogHas("safeRemoveItem")
    /\ \E req \in inflight : req.fn = "image"



----------------------------------------------------------------------------
(* Claims about the StorageHandler round trip (SpecRt) *)

\* C11: when safeSetItem(k, v) returned true, the safeGetItem(k) that follows
\* it returns v, whichever path the write took (plain, compressed, after the
\* LRU eviction, or sessionStorage).
C11_RoundTrip ==
    (ret.fn = "safeGetItem" /\ ret.ok) => ret.value = call.value

----------------------------------------------------------------------------
(* Claims about the URL of the Movie page (SpecUrl) *)

\* C12: once the effects of the Movie page have settled, the URL encodes the
\* current search term and page and the router loads it into the Movie page
\* with that term and page; every URL the page navigates to while rendering
\* (searchTerm, page) does so too, for a term that is the name of a route as
\* for any other.
C12_UrlRoundTrip ==
    /\ Committed("movie") =>
          /\ Match(url) = "Movie"
          /\ RouteTerm(url) = st.searchTerm
          /\ InitialPage(url) = st.page
    /\ (Step("render") /\ route = "movie" /\ view.mounted) =>
          \A i \in DOMAIN log :
              log[i].op = "navigate" =>
                  /\ Match(log[i].to) = "Movie"
                  /\ RouteTerm(log[i].to) = view.s.searchTerm
                  /\ InitialPage(log[i].to) = view.s.page

----------------------------------------------------------------------------
(* Claims about what a load leaves in the cache (Spec) *)

\* the step is the arrival of this kind of answer to a request of fetchMovies
FetchMoviesFailed ==
    /\ Step("settled")
    /\ log[1].req.fn = "fetchMovies"
    /\ IF log[1].response.type = "json"
       THEN log[1].response.results = <<>> ELSE TRUE

\* C13: when the request of fetchMovies fails, or is answered without a
\* results array or with an empty one, the step leaves localStorage as it
\* was: no cache key and no timestamp is written, changed or removed.
C13_CacheWrittenOnlyOnSuccess ==
    [][FetchMoviesFailed' => ls' = ls]_vars

\* a request of fetchMovies failed while localStorage held an entry for its
\* page (one that had expired) and its timestamp
C13_Witness ==
    /\ FetchMoviesFailed
    /\ CacheKeyOf(log[1].req) \in DOMAIN ls
    /\ TimestampKey(CacheKeyOf(log[1].req)) \in DOMAIN ls

----------------------------------------------------------------------------
(* Claims about clearOldCache alone (SpecFn) *)

\* C14: clearOldCache on a storage with n eligible entries removes exactly
\* ceil(0.3 * n) of them, each together with its timestamp sibling, and
\* nothing else; every entry removed has a timestamp less than or equal to
\* that of every eligible entry kept.
C14_RemovesCeilWithSiblings ==
    ret.fn = "clearOldCache" =>
        LET n == Cardinality(EligibleEntries(call.store))
            r == Cardinality(EvictedEntries)
            siblings == {TimestampKey(k) : k \in EvictedEntries}
        IN  /\ 10 * r >= 3 * n
            /\ 10 * (r - 1) < 3 * n
            /\ DOMAIN ret.store = DOMAIN call.store \ (EvictedEntries \cup siblings)
            /\ \A k \in DOMAIN ret.store : ret.store[k] = call.store[k]
            /\ EvictedAreOldest

\* four eligible entries, two of them removed with their siblings, beside an
\* entry without a timestamp and other keys that stay
C14_Witness ==
    /\ ret.fn = "clearOldCache"
    /\ Cardinality(EligibleEntries(call.store)) = 4
    /\ Cardinality(EvictedEntries) = 2
    /\ Cardinality(DOMAIN call.store \ DOMAIN ret.store) = 4
    /\ <<"image", "1">> \in DOMAIN ret.store
    /\ \E k \in DOMAIN ret.store :
          /\ HasCachePrefix(k) /\ ~EndsWithTimestamp(k)
          /\ k \notin EligibleEntries(call.store)

----------------------------------------------------------------------------
(* Claims about the timestamps of the result cache (SpecGrow) *)

\* C15: a timestamp K_timestamp is never later than the write of the data
\* stored under K: whenever a step has written K_timestamp and K is present
\* after it, the step has written K's data before.
C15_TimestampNotLaterThanData ==
    \A i \in DOMAIN log :
        IF log[i].op = "setItem"
        THEN (~log[i].threw /\ EndsWithTimestamp(log[i].key)) =>
                LET K == SubSeq(log[i].key, 1, Len(log[i].key) - 1)
                IN  K \in DOMAIN ls =>
                        \E j \in 1..(i - 1) :
                            /\ log[j].op = "setItem"
                            /\ log[j].key = K
                            /\ ~log[j].threw
        ELSE TRUE

----------------------------------------------------------------------------
(* Claims about responses that arrive out of order (Spec) *)

\* the endpoint that serves the list of a search term
ApiFor(searchTerm) ==
    IF searchTerm # "" THEN "SEARCH_MOVIES" ELSE "PAGINATED_MOVIES"

\* C16: once every request has completed and the Movie page has rendered,
\* the list it displays is the one of the current search term and page: its
\* first chunk answers a request for that term, and for that page unless
\* more results were loaded after it.
C16_ViewIsOfCurrentRequest ==
    (Committed("movie") /\ inflight = {} /\ st.movies # <<>>) =>
        /\ st.movies[1][1] = ApiFor(st.searchTerm)
        /\ st.movies[1][2] = st.searchTerm
        /\ Len(st.movies) = 1 => st.movies[1][3] = ToStr(st.page)
----------------------------------------------------------------------------
(* Claims about the retries of SeasonEpisodes (SpecSeason) *)

\* a request made by a retry timer (or by Try Again) was answered 429
RetryRateLimited ==
    /\ Step("settled")
    /\ log[1].req.skipCache
    /\ log[1].response.type = "429"

SetTimeoutIn(l) == {i \in DOMAIN l : l[i].op = "setTimeout"}

\* C17: after a 429 at most 3 retry timers run in a row (retryCount counts
\* them since the last success or Try Again), and when a retry fails with
\* three retries already made, no timer is set and the error shown is no
\* 'Retrying in' notice.
C17_AtMostThreeRetries ==
    /\ Step("retryTimeout") => st.retryCount <= 3
    /\ (RetryRateLimited /\ view.s.retryCount >= 3) =>
          /\ SetTimeoutIn(log) = {}
          /\ ~IncludesRetryingIn(st.error)

\* C18: the timer set after the failure that follows k - 1 retries waits
\* 2000 * 2^(k-1) ms, the request a retry timer makes bypasses the cache,
\* and a successful response leaves retryCount 0 and retryDelay 2000.
C18_ExponentialBackoff ==
    /\ Step("settled") =>
          \A i \in SetTimeoutIn(log) :
              /\ view.s.retryCount < 3
              /\ log[i].delay = 2000 * 2^(view.s.retryCount)
    /\ Step("retryTimeout") =>
          \A i \in DOMAIN log :
              log[i].op = "fetchSeasonEpisodes" => log[i].skipCache
    /\ (Step("settled") /\ log[1].response.type = "json") =>
          st.retryCount = 0 /\ st.retryDelay = 2000

----------------------------------------------------------------------------
(* Claims about the preload queue (SpecQueue) *)

Preloads(requests) == {r \in requests : r.fn = "preload"}

\* the URLs pushed to the queue in the step that left the events l
Pushed(l) ==
    LET pushes == SelectSeq(l, LAMBDA e : e.op = "imagePreloadQueue.push")
    IN  [i \in DOMAIN pushes |-> pushes[i].url]

\* the URLs whose load started in the step that left the events l
Started(l) ==
    LET starts == SelectSeq(l, LAMBDA e : e.op = "fetch" /\ e.req.fn = "preload")
    IN  [i \in DOMAIN starts |-> starts[i].req.src]

\* C19: in every step the loads started are the front of the queue as it was
\* with the URLs pushed in the step behind it, and what is left stays queued
\* in order (so URLs start in the order queued, each once per push); a step
\* starts at most one load, and after it one preload is outstanding if
\* isPreloading is true and none if it is false.
C19_SerialFifo ==
    [][/\ img.imagePreloadQueue \o Pushed(log')
            = Started(log') \o img'.imagePreloadQueue
       /\ Len(Started(log')) <= 1
       /\ Cardinality(Preloads(inflight')) = IF img'.isPreloading THEN 1 ELSE 0
      ]_vars

\* a load failed with two other URLs queued behind it: the first of them
\* started and the second is still queued
C19_Witness ==
    /\ Step("settled")
    /\ log[1].req.fn = "preload"
    /\ log[1].response.type = "error"
    /\ Len(Started(log)) = 1
    /\ Len(img.imagePreloadQueue) = 1
    /\ Cardinality({log[1].req.src, Started(log)[1], img.imagePreloadQueue[1]}) = 3
    /\ img.isPreloading

----------------------------------------------------------------------------
(* Claims about the preload queue when every load ends (SpecQueueFair) *)

QueuedUrls == {FullImageUrl(props) : props \in PageItems}

IsQueued(u) ==
    \E i \in DOMAIN img.imagePreloadQueue : img.imagePreloadQueue[i] = u

\* C20: if every load that started fires onload or onerror, then every URL
\* in the queue is eventually being loaded, and, the pushes being finitely
\* many, from some point on the queue is empty and isPreloading is false;
\* this whether the loads succeed or fail.
C20_QueueDrains ==
    /\ \A u \in QueuedUrls :
          IsQueued(u) ~> (\E r \in Preloads(inflight) : r.src = u)
    /\ <>[](img.imagePreloadQueue = <<>> /\ ~img.isPreloading)

\* every push was made, the load that was under way failed, and nothing is
\* left to load
C20_Witness ==
    /\ Step("settled")
    /\ log[1].req.fn = "preload"
    /\ log[1].response.type = "error"
    /\ events = MaxEvents
    /\ Preloads(inflight) = {}
    /\ img.imagePreloadQueue = <<>>
    /\ ~img.isPreloading

----------------------------------------------------------------------------
(* Claims about what the LRU eviction keeps (SpecFn) *)

\* key.includes('user_settings') || key.includes('auth_token'), for a key of
\* the storage before the eviction
NamesProtected(key) ==
    \E i \in 1..(Len(key) - 1) :
        <<key[i], key[i + 1]>> \in {<<"user", "settings">>, <<"auth", "token">>}

\* C21: whatever the storage holds and whatever bytesNeeded is, every key
\* that contains 'user_settings' or 'auth_token' is in the storage after
\* clearLRUItems, with the value it had.
C21_ProtectedKept ==
    ret.fn = "clearLRUItems" =>
        \A k \in DOMAIN call.store :
            NamesProtected(k) =>
                k \in DOMAIN ret.store /\ ret.store[k] = call.store[k]

\* both kinds of protected keys were stored, 'auth_token' the least recently
\* used of all items; every unprotected item was removed and still less was
\* freed than asked for
C21_Witness ==
    /\ ret.fn = "clearLRUItems"
    /\ {<<"user", "settings">>, <<"auth", "token">>,
        <<"backup", "auth", "token", "2">>} \subseteq DOMAIN ret.store
    /\ \E k \in DOMAIN call.store : ~NamesProtected(k) /\ ~IsMetaKey(k)
    /\ \A k \in DOMAIN ret.store : NamesProtected(k)
    /\ ret.freedBytes < call.bytesNeeded

----------------------------------------------------------------------------
(* Claims about what counts as an access (SpecLru) *)

\* the items an eviction may remove
Evictable(store) == {k \in DOMAIN store : ~IsMetaKey(k) /\ ~IsProtected(k)}

LastCall == log[Len(log)]

\* the successful calls for key k before the last call
Accesses(k) == {i \in 1..(Len(log) - 1) : log[i].key = k /\ log[i].ok}

\* when k was accessed last, as the last call has to see it: the latest
\* successful call for k, else what the metadata of k recorded when the
\* first call was made, else, k having no metadata, the time of the last call
LastAccess(k) ==
    IF Accesses(k) # {}
    THEN log[CHOOSE i \in Accesses(k) : \A j \in Accesses(k) : j <= i].at
    ELSE IF MetaKey(k) \in DOMAIN call.before
    THEN call.before[MetaKey(k)].lastAccessed
    ELSE LastCall.at

\* what the last call evicted, its own key apart
Evicted == (Evictable(call.before) \ DOMAIN ls) \ {call.key}

\* C22: a successful safeGetItem(k) or safeSetItem(k, v) leaves the metadata
\* of k reading the time of the call; and when a call evicts an item k, it
\* evicts every unprotected item that was accessed before k was, an item
\* without metadata counting as accessed at the time of the eviction.
C22_ReadsCountAsAccesses ==
    log # << >> =>
        /\ LastCall.ok =>
              getItem(ls, MetaKey(LastCall.key)) = Meta(LastCall.at)
        /\ \A k \in Evicted :
              \A j \in Evictable(call.before) \ {call.key} :
                  LastAccess(j) < LastAccess(k) => j \notin DOMAIN ls

====
